---- MODULE Spec2Model ----
(***************************************************************************)
(* Monobuck / mono_core / RealtimeSTT: the capture-and-decision pipeline   *)
(* of AudioToTextRecorder (audio_recorder.py) with its state machine       *)
(* (state_machine.py) and the transcription worker it talks to.            *)
(*                                                                         *)
(* Threads of the model:                                                   *)
(*   W  the decision loop  (_recording_worker), one chunk per iteration;   *)
(*   S  the asynchronous Silero check spawned by _check_voice_activity;    *)
(*   T, U  caller threads running the facade: text() / wait_audio() /      *)
(*      start() / stop() / listen() / abort();                             *)
(*   P  the transcription worker process behind the pipe.                  *)
(* Audio is modelled at sample level: sample k of the capture stream is    *)
(* the integer k (k >= 1), a chunk is a sequence of BufferSize samples.    *)
(* Wall-clock time (time.time()) is the variable now, advanced by Tick.    *)
(***************************************************************************)
EXTENDS Integers, Sequences, FiniteSets, TLC

\* ------------------------------------------------------------------ bounds
\* chunks the capture side may push in one behaviour
MaxChunks == 3
\* clock ticks after the initial instant
MaxTicks == 3
\* samples per chunk (buffer_size), scaled down
BufferSize == 2
\* samples per second (sample_rate), scaled down
SampleRate == 3
\* durations given to stop() and the wake-word buffer are multiples of 1/SecDen s
SecDen == 2
\* largest numerator of such a duration
MaxSecNum == 2

\* the clock starts well after the epoch: every duration is smaller than T0
T0 == 10

INT16_MAX_ABS_VALUE == 32768

\* ------------------------------------------------------------- arithmetic
Min(a, b) == IF a < b THEN a ELSE b
Max(a, b) == IF a > b THEN a ELSE b

\* Python round(x) for the non-negative rational x = p / q: half to even
PyRound(p, q) ==
    LET f == p \div q
        twice == 2 * (p % q)
    IN  IF twice < q THEN f
        ELSE IF twice > q THEN f + 1
        ELSE IF f % 2 = 0 THEN f ELSE f + 1

\* Python int(x) for the non-negative rational x = p / q: truncation
PyInt(p, q) == p \div q

\* ------------------------------------------------------------ sequences
RECURSIVE Flatten(_)
Flatten(ss) == IF ss = <<>> THEN <<>> ELSE Head(ss) \o Flatten(Tail(ss))

\* s[n+1 ..]  (Python s[n:])
DropFirst(s, n) == IF n >= Len(s) THEN <<>> ELSE SubSeq(s, n + 1, Len(s))
\* s[.. Len - n]  (Python s[:-n] for n > 0)
DropLast(s, n) == IF n >= Len(s) THEN <<>> ELSE SubSeq(s, 1, Len(s) - n)
\* the last n elements (Python s[-n:] for 0 < n <= len)
LastN(s, n) == IF n >= Len(s) THEN s ELSE SubSeq(s, Len(s) - n + 1, Len(s))

IsPrefix(p, s) == Len(p) <= Len(s) /\ SubSeq(s, 1, Len(p)) = p

\* chunk number k of the capture stream: samples (k-1)*BufferSize+1 .. k*BufferSize
Chunk(k) == [i \in 1..BufferSize |-> (k - 1) * BufferSize + i]

\* int16 -> float32, x / 32768.0, kept as an exact fraction
ToFloat32(x) == [num |-> x, den |-> INT16_MAX_ABS_VALUE]
\* float32 -> int16, (f * 32768.0).astype(int16): truncation
ToInt16(f) == (f.num * INT16_MAX_ABS_VALUE) \div f.den

MapSeq(Op(_), s) == [i \in 1..Len(s) |-> Op(s[i])]

\* re-chunk a flat sample sequence into frames of at most n samples
RECURSIVE Rechunk(_, _)
Rechunk(s, n) ==
    IF s = <<>> THEN <<>>
    ELSE <<SubSeq(s, 1, Min(n, Len(s)))>> \o Rechunk(DropFirst(s, n), n)


\* ------------------------------------------------------------------ state
VARIABLES
    cfg,          \* constructor arguments (read-only after __init__); env_*: inputs offered
    rec,          \* fields of the AudioToTextRecorder object (+ locals of the loop)
    wk,           \* position of the decision loop thread W
    th,           \* position and locals of each caller thread
    now,          \* time.time()
    audio_queue,  \* self.audio_queue
    captured,     \* number of chunks pushed so far
    pipe,         \* duplex pipe to the transcription worker: requests, responses
    mon,          \* observers of the callback stream
    svc           \* core.config's USE_REMOTE_ASR and the fields of an ASRService

vars == <<cfg, rec, wk, th, now, audio_queue, captured, pipe, mon, svc>>

RecorderState == {"inactive", "listening", "wakeword", "recording", "transcribing"}

\* pre-roll deque capacity
AudioBufferMaxLen ==
    PyInt((SampleRate \div BufferSize) * cfg.pre_recording_buffer_duration, 1)

\* ------------------------------------------------------- callbacks fired
Emit(r, e) == [r EXCEPT !.fired = Append(@, e)]

\* what one step starts from: nothing fired, nothing sent yet
Clr(r) == [r EXCEPT !.fired = <<>>, !.outbox = <<>>]

EnterEvent(s) == "enter_" \o s

\* ---------------------------------------------------------- state machine
\* a transition that does not compare the old state with the new one
transition_write_always(r, old_state, new_state) ==
    LET r1 == Emit([r EXCEPT !.state = new_state], EnterEvent(new_state))
        r2 == IF old_state = "listening" THEN Emit(r1, "on_vad_detect_stop")
              ELSE IF old_state = "wakeword" THEN Emit(r1, "on_wakeword_detection_end")
              ELSE r1
    IN  IF new_state = "listening" THEN Emit(r2, "on_vad_detect_start")
        ELSE IF new_state = "wakeword" THEN Emit(r2, "on_wakeword_detection_start")
        ELSE IF new_state = "transcribing" THEN Emit(r2, "on_transcription_start")
        ELSE r2

\* transition_state after line 48 has read old_state
transition_write(r, old_state, new_state) ==
    IF old_state = new_state THEN r
    ELSE
      LET r1 == Emit([r EXCEPT !.state = new_state], EnterEvent(new_state))
          r2 == IF old_state = "listening" THEN Emit(r1, "on_vad_detect_stop")
                ELSE IF old_state = "wakeword" THEN Emit(r1, "on_wakeword_detection_end")
                ELSE r1
      IN  IF new_state = "listening" THEN Emit(r2, "on_vad_detect_start")
          ELSE IF new_state = "wakeword" THEN Emit(r2, "on_wakeword_detection_start")
          ELSE IF new_state = "transcribing" THEN Emit(r2, "on_transcription_start")
          ELSE r2

transition_state(r, new_state) == transition_write(r, r.state, new_state)

\* _set_state: unknown values bypass the state machine
set_state_write(r, old_state, new_state) ==
    IF new_state \notin RecorderState THEN [r EXCEPT !.state = new_state]
    ELSE transition_write(r, old_state, new_state)

set_state(r, new_state) == set_state_write(r, r.state, new_state)

\* ------------------------------------------------------------ start / stop
\* the gap measured from the last start instead of the last stop
start_too_soon_from_start(r) ==
    now - r.recording_start_time < cfg.min_gap_between_recordings

start_too_soon(r) == now - r.recording_stop_time < cfg.min_gap_between_recordings

\* a start() that leaves the wake-word detection as it is
start_body_keeps_wakeword(r, old_state) ==
    LET r1 == set_state_write(r, old_state, "recording")
        r2 == [r1 EXCEPT !.frames = <<>>,
                         !.is_recording = TRUE,
                         !.recording_start_time = now,
                         !.is_silero_speech_active = FALSE,
                         !.is_webrtc_speech_active = FALSE,
                         !.stop_recording_event = FALSE,
                         !.start_recording_event = TRUE]
    IN  Emit(r2, "on_recording_start")

\* start() after the guard, given the old_state its _set_state read
start_body(r, old_state) ==
    LET r1 == set_state_write(r, old_state, "recording")
        r2 == [r1 EXCEPT !.wakeword_detected = FALSE,
                         !.wake_word_detect_time = 0,
                         !.frames = <<>>,
                         !.is_recording = TRUE,
                         !.recording_start_time = now,
                         !.is_silero_speech_active = FALSE,
                         !.is_webrtc_speech_active = FALSE,
                         !.stop_recording_event = FALSE,
                         !.start_recording_event = TRUE]
    IN  Emit(r2, "on_recording_start")

start(r) == IF start_too_soon(r) THEN r ELSE start_body(r, r.state)

\* the length measured from the last stop instead of the last start
stop_too_soon_from_stop(r) ==
    now - r.recording_stop_time < cfg.min_length_of_recording

stop_too_soon(r) == now - r.recording_start_time < cfg.min_length_of_recording

\* a stop() that also hands the recorder to the Transcribing state
stop_to_transcribing(r, backdate_stop_seconds, backdate_resume_seconds) ==
    IF stop_too_soon(r) THEN r
    ELSE set_state(Emit([r EXCEPT !.last_frames = r.frames,
                                  !.backdate_stop_seconds = backdate_stop_seconds,
                                  !.backdate_resume_seconds = backdate_resume_seconds,
                                  !.is_recording = FALSE,
                                  !.recording_stop_time = now,
                                  !.is_silero_speech_active = FALSE,
                                  !.is_webrtc_speech_active = FALSE,
                                  !.start_recording_event = FALSE,
                                  !.stop_recording_event = TRUE],
                        "on_recording_stop"), "transcribing")

stop(r, backdate_stop_seconds, backdate_resume_seconds) ==
    IF stop_too_soon(r) THEN r
    ELSE Emit([r EXCEPT !.last_frames = r.frames,
                        !.backdate_stop_seconds = backdate_stop_seconds,
                        !.backdate_resume_seconds = backdate_resume_seconds,
                        !.is_recording = FALSE,
                        !.recording_stop_time = now,
                        !.is_silero_speech_active = FALSE,
                        !.is_webrtc_speech_active = FALSE,
                        !.start_recording_event = FALSE,
                        !.stop_recording_event = TRUE],
              "on_recording_stop")

\* ------------------------------------------------------------- VAD gates
\* the voice gate open whatever the detectors said
is_voice_active_unchecked(r) == r.is_webrtc_speech_active \/ ~r.is_webrtc_speech_active

is_voice_active(r) == r.is_webrtc_speech_active /\ r.is_silero_speech_active

\* _check_voice_activity with the fast gate answering webrtc
check_voice_activity(r, webrtc) ==
    LET r1 == [r EXCEPT !.is_webrtc_speech_active = webrtc]
    IN  IF webrtc /\ ~r1.silero_working
        THEN [r1 EXCEPT !.silero_working = TRUE, !.silero_threads = @ + 1]
        ELSE r1

\* _add_padding_to_audio: one second of zeros at both ends
add_padding_to_audio(audio) ==
    LET padding == [i \in 1..SampleRate |-> ToFloat32(0)]
    IN  padding \o audio \o padding

\* ------------------------------------------------------- the decision loop
\* removal of the wake-word samples from the head of the utterance
RECURSIVE StripLoop(_, _)
StripLoop(frames, n) ==
    IF n > 0 /\ frames # <<>>
    THEN LET frame == Head(frames)
             frame_samples == Len(frame)
         IN  IF n >= frame_samples
             THEN StripLoop(Tail(frames), n - frame_samples)
             \* the else branch zeroes samples_to_remove, not the loop counter
             ELSE StripLoop(<<DropFirst(frame, n)>> \o Tail(frames), n)
    ELSE frames

\* deque.append with maxlen
DequeAppend(d, x, maxlen) ==
    IF maxlen = 0 THEN <<>>
    ELSE IF Len(d) >= maxlen THEN Append(Tail(d), x)
    ELSE Append(d, x)

\* lines 1349-1364: activation delay bookkeeping of the not-recording branch
time_since_listen_start(r) == IF r.listen_start # 0 THEN now - r.listen_start ELSE 0
delay_passed(r) == time_since_listen_start(r) > cfg.wake_word_activation_delay

NotRecDelay(r) ==
    LET dp == delay_passed(r)
        r1 == IF dp /\ ~r.delay_was_passed
                 /\ cfg.use_wake_words /\ cfg.wake_word_activation_delay # 0
              THEN Emit(r, "on_wakeword_timeout") ELSE r
    IN  [r1 EXCEPT !.delay_was_passed = dp]

\* lines 1367-1376: does the iteration call _set_state, and with what
NotRecSetsState(r) == r.recording_stop_time = 0
NotRecTarget(r, dp) ==
    IF cfg.use_wake_words /\ dp /\ ~r.wakeword_detected THEN "wakeword"
    ELSE IF r.listen_start # 0 THEN "listening" ELSE "inactive"

\* lines 1378-1420: wake word, composite VAD, voice-triggered start
NotRecRest(r, data, dp, wakeword, webrtc) ==
    LET a == IF cfg.use_wake_words /\ dp /\ wakeword
             THEN Emit([r EXCEPT !.wake_word_detect_time = now,
                                 !.wakeword_samples_to_remove =
                                     PyInt(SampleRate * cfg.wake_word_buffer_duration, SecDen),
                                 !.wakeword_detected = TRUE],
                       "on_wakeword_detected")
             ELSE r
        b == IF ((~cfg.use_wake_words \/ ~dp) /\ a.start_recording_on_voice_activity)
                  \/ a.wakeword_detected
             THEN IF is_voice_active(a)
                  THEN LET s == start(a)
                       IN  [s EXCEPT !.start_recording_on_voice_activity = FALSE,
                                     !.frames = @ \o s.audio_buffer,
                                     !.audio_buffer = <<>>]
                  ELSE check_voice_activity(a, webrtc)
             ELSE a
    IN  [b EXCEPT !.speech_end_silence_start = 0]

\* the silence timer taken as run out as soon as it runs
silence_elapsed_at_once(r) == r.speech_end_silence_start # 0

\* lines 1477-1479: the silence timer has run for post_speech_silence_duration
silence_elapsed(r) ==
    /\ r.speech_end_silence_start # 0
    /\ now - r.speech_end_silence_start >= cfg.post_speech_silence_duration

\* lines 1424-1492: the recording branch, the deactivation gate answering is_speech
RecBranch(r, data, is_speech) ==
    LET r1 == IF r.wakeword_samples_to_remove > 0
              THEN [r EXCEPT !.frames = StripLoop(@, r.wakeword_samples_to_remove),
                             !.wakeword_samples_to_remove = 0]
              ELSE r
    IN  IF ~r1.stop_recording_on_voice_deactivity THEN r1
        ELSE
          LET r2 == IF cfg.silero_deactivity_detection
                    THEN [r1 EXCEPT !.is_speech = is_speech,
                                    !.is_silero_speech_active = is_speech,
                                    !.silero_working = FALSE]
                    ELSE [r1 EXCEPT !.is_speech = is_speech,
                                    !.is_webrtc_speech_active = is_speech]
              r3 == IF ~is_speech
                    THEN LET a == IF r2.speech_end_silence_start = 0
                                     /\ now - r2.recording_start_time
                                            > cfg.min_length_of_recording
                                  THEN [r2 EXCEPT !.speech_end_silence_start = now]
                                  ELSE r2
                         IN  IF a.speech_end_silence_start # 0
                                /\ cfg.early_transcription_on_silence # 0
                                /\ Len(a.frames) > 0
                                /\ now - a.speech_end_silence_start
                                       > cfg.early_transcription_on_silence
                                /\ a.allowed_to_early_transcribe
                             THEN [a EXCEPT
                                     !.transcribe_count = @ + 1,
                                     !.outbox = Append(@, add_padding_to_audio(
                                                   MapSeq(ToFloat32, Flatten(a.frames)))),
                                     !.allowed_to_early_transcribe = FALSE]
                             ELSE a
                    ELSE IF r2.speech_end_silence_start # 0
                         THEN [r2 EXCEPT !.speech_end_silence_start = 0,
                                         !.allowed_to_early_transcribe = TRUE]
                         ELSE r2
          IN  IF silence_elapsed(r3)
              THEN LET b == stop([r3 EXCEPT !.frames = Append(@, data)], 0, 0)
                   IN  IF ~b.is_recording
                       THEN [b EXCEPT !.speech_end_silence_start = 0]
                       ELSE [b EXCEPT !.failed_stop_attempt = TRUE]
              ELSE r3

\* the end of an iteration appending the chunk whether or not a stop() attempt
\* of the iteration was rejected
LoopTail_ignores_failed_stop(r, data) ==
    LET a == IF ~r.is_recording /\ r.was_recording
             THEN [r EXCEPT !.stop_recording_on_voice_deactivity = FALSE] ELSE r
        b == IF a.wake_word_detect_time # 0
                /\ now - a.wake_word_detect_time > cfg.wake_word_timeout
             THEN LET x == [a EXCEPT !.wake_word_detect_time = 0]
                      y == IF x.wakeword_detected
                           THEN Emit(x, "on_wakeword_timeout") ELSE x
                  IN  [y EXCEPT !.wakeword_detected = FALSE]
             ELSE a
        c == [b EXCEPT !.was_recording = b.is_recording]
        d == IF c.is_recording
             THEN [c EXCEPT !.frames = Append(@, data)] ELSE c
    IN  IF ~d.is_recording \/ d.speech_end_silence_start # 0
        THEN [d EXCEPT !.audio_buffer = DequeAppend(@, data, AudioBufferMaxLen)]
        ELSE d

\* lines 1494-1516: end of every iteration
LoopTail(r, data) ==
    LET a == IF ~r.is_recording /\ r.was_recording
             THEN [r EXCEPT !.stop_recording_on_voice_deactivity = FALSE] ELSE r
        b == IF a.wake_word_detect_time # 0
                /\ now - a.wake_word_detect_time > cfg.wake_word_timeout
             THEN LET x == [a EXCEPT !.wake_word_detect_time = 0]
                      y == IF x.wakeword_detected
                           THEN Emit(x, "on_wakeword_timeout") ELSE x
                  IN  [y EXCEPT !.wakeword_detected = FALSE]
             ELSE a
        c == [b EXCEPT !.was_recording = b.is_recording]
        d == IF c.is_recording /\ ~c.failed_stop_attempt
             THEN [c EXCEPT !.frames = Append(@, data)] ELSE c
    IN  IF ~d.is_recording \/ d.speech_end_silence_start # 0
        THEN [d EXCEPT !.audio_buffer = DequeAppend(@, data, AudioBufferMaxLen)]
        ELSE d


\* ------------------------------------------------------------- wait_audio
\* frame length used to re-chunk the carried-over tail (2048 bytes = 2 chunks)
FRAME_SIZE == 2 * BufferSize

\* lines 927-981: assemble the utterance, apply the backdates, reset
assembled_frames(r) == IF Len(r.frames) = 0 THEN r.last_frames ELSE r.frames

assemble(r) ==
    LET frames == assembled_frames(r)
        samples_to_keep == PyInt(SampleRate * r.backdate_resume_seconds, SecDen)
        full_audio == MapSeq(ToFloat32, Flatten(frames))
        frames_to_read ==
            IF samples_to_keep > 0
            THEN Rechunk(MapSeq(ToInt16,
                                LastN(full_audio, Min(samples_to_keep, Len(full_audio)))),
                         FRAME_SIZE)
            ELSE <<>>
        samples_to_remove == PyInt(SampleRate * r.backdate_stop_seconds, SecDen)
        audio == IF samples_to_remove > 0
                 THEN IF samples_to_remove < Len(full_audio)
                      THEN DropLast(full_audio, samples_to_remove)
                      ELSE <<>>
                 ELSE full_audio
    IN  [r EXCEPT !.audio = audio,
                  !.frames = frames_to_read,
                  !.last_frames = <<>>,
                  !.backdate_stop_seconds = 0,
                  !.backdate_resume_seconds = 0,
                  !.listen_start = 0]

\* ---------------------------------------------------------------- monitors
\* most recent of: on_recording_start / entry into Transcribing or Inactive
RECURSIVE LastRec(_, _)
LastRec(last, evs) ==
    IF evs = <<>> THEN last
    ELSE LastRec(IF Head(evs) = "on_recording_start" THEN "start"
                 ELSE IF Head(evs) \in {"enter_transcribing", "enter_inactive"} THEN "other"
                 ELSE last,
                 Tail(evs))

\* most recent of: on_vad_detect_start / on_vad_detect_stop
RECURSIVE LastVad(_, _)
LastVad(last, evs) ==
    IF evs = <<>> THEN last
    ELSE LastVad(IF Head(evs) = "on_vad_detect_start" THEN "start"
                 ELSE IF Head(evs) = "on_vad_detect_stop" THEN "stop"
                 ELSE last,
                 Tail(evs))

\* on_recording_start fired again with no entry into Transcribing / Inactive since
RECURSIVE RecTwiceIn(_, _)
RecTwiceIn(last, evs) ==
    IF evs = <<>> THEN FALSE
    ELSE \/ (Head(evs) = "on_recording_start" /\ last = "start")
         \/ RecTwiceIn(LastRec(last, <<Head(evs)>>), Tail(evs))

\* the VAD callbacks out of step: a start after a start, a stop not after a start
RECURSIVE VadBadIn(_, _)
VadBadIn(last, evs) ==
    IF evs = <<>> THEN FALSE
    ELSE \/ (Head(evs) = "on_vad_detect_start" /\ last = "start")
         \/ (Head(evs) = "on_vad_detect_stop" /\ last # "start")
         \/ VadBadIn(LastVad(last, <<Head(evs)>>), Tail(evs))

Observe(m, evs) == [m EXCEPT !.lastRec = LastRec(m.lastRec, evs),
                             !.lastVad = LastVad(m.lastVad, evs),
                             !.recTwice = RecTwiceIn(m.lastRec, evs),
                             !.vadBad = VadBadIn(m.lastVad, evs),
                             !.cycled = @ \/ \E i \in DOMAIN evs :
                                                 evs[i] = "on_recording_start",
                             !.wakeRec = IF \E i \in DOMAIN evs :
                                                 evs[i] = "on_recording_start"
                                         THEN rec.wakeword_detected ELSE @]

\* every step: the recorder after the step, its requests sent, its callbacks
\* observed by the monitor m
StepMon(r, m) ==
    /\ rec' = r
    /\ pipe' = [pipe EXCEPT !.req = @ \o r.outbox]
    /\ mon' = Observe(m, r.fired)

\* prevAudio, prevResume note the audio wait_audio assembled last and the
\* backdate_resume_seconds it was given (when that stop trimmed nothing),
\* cycled that a recording has been started since
\* abortTx notes that the abort() under way found a text() call waiting for its
\* transcription response
StepMark(r, abortTx) == StepMon(r, [mon EXCEPT !.abortTx = abortTx])

\* listenFrom notes how many chunks had been captured when listening began
StepListen(r) ==
    StepMon(r, [mon EXCEPT !.listenFrom = IF rec.listen_start = 0 THEN captured ELSE @])

Step(r) == StepMon(r, mon)

\* number of chunk data in the capture stream
ChunkNo(data) == data[BufferSize] \div BufferSize

\* how the transcribe() calls so far went: one raised, or one returned after
\* the one before it had raised
TrOutcome(last, status) ==
    IF status # "success" THEN "raised"
    ELSE IF last = "raised" THEN "recovered" ELSE last

\* a step of the decision loop on chunk data: wakeChunk notes the chunk a wake
\* word was detected on, wakeRec that the recording under way was started
\* with a wake word detected and not timed out, lastChunk the chunk the iteration works
\* on, skipped how many chunks its overflow handling took beyond the first
StepLoop(r, data) ==
    LET detected == \E i \in DOMAIN r.fired : r.fired[i] = "on_wakeword_detected"
        started == \E i \in DOMAIN r.fired : r.fired[i] = "on_recording_start"
    IN  /\ rec' = r
        /\ pipe' = [pipe EXCEPT !.req = @ \o r.outbox]
        /\ mon' = [Observe(mon, r.fired) EXCEPT
                     !.wakeChunk = IF detected THEN ChunkNo(data) ELSE @,
                     !.wakeRec = IF started THEN rec.wakeword_detected \/ detected
                                 ELSE @,
                     !.lastChunk = ChunkNo(data),
                     !.skipped = IF wk.pc = "set" THEN @
                                 ELSE Len(audio_queue) - 1 - Len(audio_queue')]

\* ------------------------------------------------------------ environment
\* wall-clock time passes
Tick ==
    /\ now < T0 + cfg.env_ticks
    /\ now' = now + 1
    /\ UNCHANGED <<cfg, svc, rec, wk, th, audio_queue, captured, pipe, mon>>

\* the capture side (_audio_data_worker / feed_audio) pushes the next chunk
Capture ==
    /\ rec.reader_alive
    /\ captured < cfg.env_chunks
    /\ Len(audio_queue) < cfg.env_max_queue
    /\ captured' = captured + 1
    /\ audio_queue' = Append(audio_queue, Chunk(captured + 1))
    /\ UNCHANGED <<cfg, svc, rec, wk, th, now, pipe, mon>>

\* what a voice-activity detector can answer on chunk number k: anything, or,
\* with a scripted input, speech exactly on the chunks of env_speech (the
\* first of them env_onset)
SpeechInputs(k) ==
    IF cfg.env_script THEN {k \in cfg.env_speech} ELSE BOOLEAN

\* scripted input: a chunk arrives every chunk period, the threads of the
\* recorder keeping up with it (the loop has worked off the chunk before, no
\* Silero check is under way, the caller has reacted to the start event); the
\* speech begins with the caller listening
Feed ==
    /\ captured < cfg.env_chunks
    /\ audio_queue = <<>>
    /\ wk.pc = "loop"
    /\ rec.silero_threads = 0
    /\ \/ captured + 1 < cfg.env_onset
       \/ rec.recording_stop_time # 0
       \/ th["T"].pc = "wa_start" /\ ~rec.start_recording_event
       \/ th["T"].pc = "wa_stop" /\ ~rec.stop_recording_event
    /\ captured' = captured + 1
    /\ now' = now + 1
    /\ audio_queue' = <<Chunk(captured + 1)>>
    /\ UNCHANGED <<cfg, svc, rec, wk, th, pipe, mon>>

\* the asynchronous Silero check (_is_silero_speech on its own thread) returns;
\* it was given the chunk of the loop's last iteration
SileroDone ==
    /\ rec.silero_threads > 0
    /\ \E speech \in SpeechInputs(mon.lastChunk) :
         Step([Clr(rec) EXCEPT !.is_silero_speech_active = speech,
                               !.silero_working = FALSE,
                               !.silero_threads = @ - 1])
    /\ UNCHANGED <<cfg, svc, wk, th, now, audio_queue, captured>>

\* TranscriptionWorker.run line 91: the model is loaded, or the load raises and
\* the process ends
TwLoad ==
    /\ rec.transcriber_state = "spawned"
    /\ \E ok \in IF cfg.env_engine_fails THEN BOOLEAN ELSE {TRUE} :
         Step([Clr(rec) EXCEPT !.transcriber_state = IF ok THEN "loaded" ELSE "dead",
                               !.model_loaded = ok])
    /\ UNCHANGED <<cfg, svc, wk, th, now, audio_queue, captured>>

\* lines 94-98: the warm-up inference, which may raise as well
TwWarmup ==
    /\ rec.transcriber_state = "loaded"
    /\ \E ok \in IF cfg.env_engine_fails THEN BOOLEAN ELSE {TRUE} :
         Step([Clr(rec) EXCEPT !.transcriber_state = IF ok THEN "warmed" ELSE "dead",
                               !.model_warm = ok])
    /\ UNCHANGED <<cfg, svc, wk, th, now, audio_queue, captured>>

\* lines 103-111: ready_event.set(), the polling thread, the serving loop
TwReady ==
    /\ rec.transcriber_state = "warmed"
    /\ Step([Clr(rec) EXCEPT !.ready_event = TRUE, !.transcriber_state = "serving"])
    /\ UNCHANGED <<cfg, svc, wk, th, now, audio_queue, captured>>

\* TranscriptionWorker.run lines 111-134: one request in, one (status, result) out
Statuses == IF cfg.env_engine_fails THEN {"success", "error"} ELSE {"success"}

Transcriber ==
    /\ rec.transcriber_state = "serving"
    /\ ~rec.transcriber_closed
    /\ pipe.req # <<>>
    /\ \E status \in Statuses :
         /\ pipe' = [req |-> Tail(pipe.req),
                     resp |-> Append(pipe.resp, <<status, Head(pipe.req)>>)]
    /\ UNCHANGED <<cfg, svc, rec, wk, th, now, audio_queue, captured, mon>>

\* ------------------------------------------------------- decision loop W
\* the overflow handling keeping the oldest chunks and dropping the newest
Popped_keeps_oldest ==
    LET q1 == Tail(audio_queue)
        ndrop == IF cfg.handle_buffer_overflow /\ Len(q1) > cfg.allowed_latency_limit
                 THEN Len(q1) - cfg.allowed_latency_limit ELSE 0
    IN  [data |-> Head(audio_queue),
         queue |-> DropLast(q1, ndrop)]

\* lines 1310-1331: pop one chunk; overflow handling drops the backlog
Popped ==
    LET q1 == Tail(audio_queue)
        ndrop == IF cfg.handle_buffer_overflow /\ Len(q1) > cfg.allowed_latency_limit
                 THEN Len(q1) - cfg.allowed_latency_limit ELSE 0
    IN  [data |-> IF ndrop > 0 THEN q1[ndrop] ELSE Head(audio_queue),
         queue |-> DropFirst(q1, ndrop)]

\* line 1307: while self.is_running, checked when an iteration is over: the
\* loop goes back into audio_queue.get, or ends
LoopBack ==
    [pc |-> IF rec.is_running THEN "loop" ELSE "done",
     data |-> <<>>, dp |-> FALSE, old |-> "", new |-> ""]

LoopStart(r) == [Emit(Clr(r), "on_recorded_chunk") EXCEPT !.failed_stop_attempt = FALSE]

\* an iteration of the recording branch
WRecording ==
    /\ wk.pc = "loop"
    /\ audio_queue # <<>>
    /\ rec.is_recording
    /\ audio_queue' = Popped.queue
    /\ \E is_speech \in IF rec.stop_recording_on_voice_deactivity
                         THEN SpeechInputs(ChunkNo(Popped.data)) ELSE {FALSE} :
         StepLoop(LoopTail(RecBranch(LoopStart(rec), Popped.data, is_speech),
                           Popped.data), Popped.data)
    /\ wk' = LoopBack
    /\ UNCHANGED <<cfg, svc, th, now, captured>>

\* an iteration of the not-recording branch up to the read inside _set_state
WNotRecRead ==
    /\ wk.pc = "loop"
    /\ audio_queue # <<>>
    /\ ~rec.is_recording
    /\ NotRecSetsState(rec)
    /\ audio_queue' = Popped.queue
    /\ LET r1 == NotRecDelay(LoopStart(rec))
       IN  /\ StepLoop(r1, Popped.data)
           /\ wk' = [pc |-> "set", data |-> Popped.data, dp |-> delay_passed(rec),
                     old |-> r1.state, new |-> NotRecTarget(r1, delay_passed(rec))]
    /\ UNCHANGED <<cfg, svc, th, now, captured>>

WakewordInputs(r, dp) == IF cfg.use_wake_words /\ dp THEN BOOLEAN ELSE {FALSE}
WebrtcInputs(data) == SpeechInputs(ChunkNo(data))

\* ... the write of _set_state and the rest of that iteration
WNotRecWrite ==
    /\ wk.pc = "set"
    /\ \E wakeword \in WakewordInputs(rec, wk.dp), webrtc \in WebrtcInputs(wk.data) :
         StepLoop(LoopTail(NotRecRest(set_state_write(Clr(rec), wk.old, wk.new),
                                      wk.data, wk.dp, wakeword, webrtc),
                           wk.data), wk.data)
    /\ wk' = LoopBack
    /\ UNCHANGED <<cfg, svc, th, now, audio_queue, captured>>

\* an iteration of the not-recording branch that does not touch the state
WNotRecNoSet ==
    /\ wk.pc = "loop"
    /\ audio_queue # <<>>
    /\ ~rec.is_recording
    /\ ~NotRecSetsState(rec)
    /\ audio_queue' = Popped.queue
    /\ \E wakeword \in WakewordInputs(rec, delay_passed(rec)), webrtc \in WebrtcInputs(Popped.data) :
         StepLoop(LoopTail(NotRecRest(NotRecDelay(LoopStart(rec)),
                                      Popped.data, delay_passed(rec), wakeword, webrtc),
                           Popped.data), Popped.data)
    /\ wk' = LoopBack
    /\ UNCHANGED <<cfg, svc, th, now, captured>>


\* lines 1311-1315: nothing in the queue for 0.01 s and is_running is off
WEmpty ==
    /\ wk.pc = "loop"
    /\ audio_queue = <<>>
    /\ ~rec.is_running
    /\ wk' = [wk EXCEPT !.pc = "done"]
    /\ UNCHANGED <<cfg, svc, rec, th, now, audio_queue, captured, pipe, mon>>

\* the slicing that takes one chunk from the accumulator at most
Sliced_once(buffer) ==
    IF Len(buffer) >= BufferSize
    THEN [out |-> <<SubSeq(buffer, 1, BufferSize)>>, rest |-> DropFirst(buffer, BufferSize)]
    ELSE [out |-> <<>>, rest |-> buffer]

\* lines 785-799, 1236-1242: while the accumulator holds 2 * buffer_size bytes
\* (BufferSize samples of 2 bytes) slice that many off and put them on the
\* queue; out are the chunks put, rest what stays in the accumulator
RECURSIVE Sliced(_)
Sliced(buffer) ==
    IF Len(buffer) >= BufferSize
    THEN LET s == Sliced(DropFirst(buffer, BufferSize))
         IN  [out |-> <<SubSeq(buffer, 1, BufferSize)>> \o s.out, rest |-> s.rest]
    ELSE [out |-> <<>>, rest |-> buffer]

\* the most samples one read or one feed_audio call brings
MaxRead == 2 * BufferSize + 1
\* the most samples a producer is given in all
MaxInput == MaxRead + 1

\* _audio_data_worker lines 774-799: one read of the stream, n samples after
\* preprocessing (numbered on from nread), taken into the accumulator if the
\* microphone is on, sliced; readIn notes the samples taken
audio_data_worker ==
    /\ rec.reader_alive
    /\ ~rec.shutdown_event
    /\ mon.nread < MaxInput
    /\ \E n \in 1..Min(MaxRead, MaxInput - mon.nread), use_microphone \in BOOLEAN :
         LET processed_data == [i \in 1..n |-> mon.nread + i]
             s == Sliced(rec.reader_buffer \o processed_data)
         IN  IF use_microphone
             THEN /\ rec' = [Clr(rec) EXCEPT !.reader_buffer = s.rest]
                  /\ audio_queue' = audio_queue \o s.out
                  /\ mon' = [mon EXCEPT !.nread = @ + n, !.readIn = @ \o processed_data]
             ELSE /\ rec' = Clr(rec)
                  /\ audio_queue' = audio_queue
                  /\ mon' = [mon EXCEPT !.nread = @ + n]
    /\ UNCHANGED <<cfg, svc, wk, th, now, captured, pipe>>

\* the capture worker (_audio_data_worker, lines 637 / 774) sees shutdown_event;
\* lines 854-857: what is left in its accumulator goes on the queue
ReaderExit ==
    /\ rec.reader_alive
    /\ rec.shutdown_event
    /\ Step([Clr(rec) EXCEPT !.reader_alive = FALSE])
    /\ audio_queue' = IF rec.reader_buffer # <<>>
                      THEN Append(audio_queue, rec.reader_buffer) ELSE audio_queue
    /\ UNCHANGED <<cfg, svc, wk, th, now, captured>>

\* --------------------------------------------------------- caller threads
Callers == {"T", "U"}

Idle == [pc |-> "idle", call |-> "", old |-> "", status |-> "", result |-> <<>>,
         samples_to_remove |-> 0,
         ret |-> "none"]

Goto(t, pc) == th' = [th EXCEPT ![t].pc = pc]
Return(t, ret) == th' = [th EXCEPT ![t] = [Idle EXCEPT !.ret = ret]]

Rest == <<cfg, svc, wk, now, audio_queue, captured>>

\* feed_audio lines 1203-1242: a chunk of n samples (numbered on downwards from
\* -1) joins self.buffer, which is sliced; fedIn notes the samples fed
feed_audio(t) ==
    /\ th[t].pc = "idle"
    /\ Len(mon.fedIn) < MaxInput
    /\ \E n \in 1..Min(MaxRead, MaxInput - Len(mon.fedIn)) :
         LET chunk == [i \in 1..n |-> 0 - (Len(mon.fedIn) + i)]
             s == Sliced(rec.buffer \o chunk)
         IN  /\ rec' = [Clr(rec) EXCEPT !.buffer = s.rest]
             /\ audio_queue' = audio_queue \o s.out
             /\ mon' = [mon EXCEPT !.fedIn = @ \o chunk]
    /\ Return(t, "fed")
    /\ UNCHANGED <<cfg, svc, wk, now, captured, pipe>>

\* AudioToTextRecorder.__init__ line 329, SenseVoiceTranscriber.__init__
\* lines 36-52: the worker process is started
RecInit(t) ==
    /\ th[t].pc = "init"
    /\ Step([Clr(rec) EXCEPT !.transcriber_state = "spawned"])
    /\ Goto(t, "init_wait")
    /\ UNCHANGED Rest

\* the constructor going on without waiting for ready_event
RecInitEnd_no_wait(t) ==
    /\ th[t].pc = "init_wait"
    /\ Step([Clr(rec) EXCEPT !.is_running = TRUE, !.reader_alive = TRUE])
    /\ wk' = [wk EXCEPT !.pc = "loop"]
    /\ Return(t, "constructed")
    /\ UNCHANGED <<cfg, svc, now, audio_queue, captured>>

\* SenseVoiceTranscriber.__init__ line 55: ready_event.wait() returns; the rest
\* of AudioToTextRecorder.__init__ (lines 336-483): the capture worker and the
\* recording thread are started
RecInitEnd(t) ==
    /\ th[t].pc = "init_wait"
    /\ rec.ready_event
    /\ Step([Clr(rec) EXCEPT !.is_running = TRUE, !.reader_alive = TRUE])
    /\ wk' = [wk EXCEPT !.pc = "loop"]
    /\ Return(t, "constructed")
    /\ UNCHANGED <<cfg, svc, now, audio_queue, captured>>

\* text(): lines 1088-1091, entering wait_audio
Text(t) ==
    /\ th[t].pc = "idle"
    /\ th' = [th EXCEPT ![t] = [Idle EXCEPT !.pc = "wa_enter", !.call = "text"]]
    /\ StepMark([Clr(rec) EXCEPT !.interrupt_stop_event = FALSE,
                                 !.was_interrupted = FALSE], FALSE)
    /\ UNCHANGED Rest

\* wait_audio() called on its own
WaitAudio(t) ==
    /\ th[t].pc = "idle"
    /\ th' = [th EXCEPT ![t] = [Idle EXCEPT !.pc = "wa_enter", !.call = "wait_audio"]]
    /\ Step(Clr(rec))
    /\ UNCHANGED Rest

\* wait_audio lines 903-908: listen_start, and the read inside _set_state(LISTENING)
WaEnter(t) ==
    /\ th[t].pc = "wa_enter"
    /\ LET r1 == IF rec.listen_start = 0
                 THEN [Clr(rec) EXCEPT !.listen_start = now] ELSE Clr(rec)
       IN  /\ StepListen(r1)
           /\ IF ~r1.is_recording /\ r1.frames = <<>>
              THEN th' = [th EXCEPT ![t].pc = "wa_listen", ![t].old = r1.state]
              ELSE Goto(t, "wa_rec")
    /\ UNCHANGED Rest

\* lines 908-909: the write of _set_state(LISTENING), arming the voice start
WaListen(t) ==
    /\ th[t].pc = "wa_listen"
    /\ Step([set_state_write(Clr(rec), th[t].old, "listening")
                EXCEPT !.start_recording_on_voice_activity = TRUE])
    /\ Goto(t, "wa_start")
    /\ UNCHANGED Rest

\* the wait for the start event without the check of the interrupt
WaStart_ignores_interrupt(t) ==
    /\ th[t].pc = "wa_start"
    /\ rec.start_recording_event
    /\ Step(Clr(rec))
    /\ Goto(t, "wa_rec")
    /\ UNCHANGED Rest

\* lines 913-915: blocked until the start event or the interrupt
WaStart(t) ==
    /\ th[t].pc = "wa_start"
    /\ rec.interrupt_stop_event \/ rec.start_recording_event
    /\ Step(Clr(rec))
    /\ Goto(t, "wa_rec")
    /\ UNCHANGED Rest

\* lines 918-919
WaRec(t) ==
    /\ th[t].pc = "wa_rec"
    /\ IF rec.is_recording
       THEN /\ Step([Clr(rec) EXCEPT !.stop_recording_on_voice_deactivity = TRUE])
            /\ Goto(t, "wa_stop")
       ELSE /\ Step(Clr(rec))
            /\ Goto(t, "wa_asm")
    /\ UNCHANGED Rest

\* lines 923-925: blocked until the stop event or the interrupt
WaStop(t) ==
    /\ th[t].pc = "wa_stop"
    /\ rec.interrupt_stop_event \/ rec.stop_recording_event
    /\ Step(Clr(rec))
    /\ Goto(t, "wa_asm")
    /\ UNCHANGED Rest

\* lines 927-983: assembly, and the read inside _set_state(INACTIVE)
WaAssemble(t) ==
    /\ th[t].pc = "wa_asm"
    /\ StepMon(assemble(Clr(rec)),
               [mon EXCEPT !.listenFrom = 0,
                           !.prevAudio = IF rec.backdate_stop_seconds = 0
                                         THEN Flatten(assembled_frames(rec))
                                         ELSE <<>>,
                           !.prevResume = IF rec.backdate_stop_seconds = 0
                                          THEN rec.backdate_resume_seconds ELSE 0,
                           !.cycled = FALSE])
    /\ th' = [th EXCEPT ![t].pc = "wa_inactive", ![t].old = rec.state,
                        ![t].samples_to_remove =
                            PyInt(SampleRate * rec.backdate_stop_seconds, SecDen)]
    /\ UNCHANGED Rest

\* line 983: the write of _set_state(INACTIVE); wait_audio returns
WaInactive(t) ==
    /\ th[t].pc = "wa_inactive"
    /\ Step(set_state_write(Clr(rec), th[t].old, "inactive"))
    /\ IF th[t].call = "wait_audio"
       THEN Return(t, "returned")
       ELSE Goto(t, "tx_check")
    /\ UNCHANGED Rest

\* a caller is inside was_interrupted.wait() (abort() line 880): a set() of the
\* event wakes it, and the wait returns whether or not the event has been
\* cleared again by then (was_interrupted_woken notes the wake-up)
WaitsForInterrupted == \E u \in Callers : th[u].pc = "abort_wait"

\* text() lines 1097-1106: interrupted -> "", else transcribe() is entered
\* (line 1005: the read inside _set_state(TRANSCRIBING))
TextCheck(t) ==
    /\ th[t].pc = "tx_check"
    /\ IF rec.is_shut_down \/ rec.interrupt_stop_event
       THEN /\ Step([Clr(rec) EXCEPT
                       !.was_interrupted = @ \/ rec.interrupt_stop_event,
                       !.was_interrupted_woken =
                           @ \/ (rec.interrupt_stop_event /\ WaitsForInterrupted)])
            /\ Return(t, "empty")
       ELSE /\ Step(Clr(rec))
            /\ th' = [th EXCEPT ![t].pc = "tr_set", ![t].old = rec.state]
    /\ UNCHANGED Rest

\* line 1008: with self.transcription_lock: the callers inside its body
LockedPcs == {"tr_poll", "tr_abort", "tr_inactive"}
transcription_lock == {t \in Callers : th[t].pc \in LockedPcs}

\* transcribe lines 1005-1016: the write of _set_state, the lock taken, the request
TrSet(t) ==
    /\ th[t].pc = "tr_set"
    /\ transcription_lock \subseteq {t}
    /\ LET r1 == set_state_write(Clr(rec), th[t].old, "transcribing")
       IN  IF r1.transcribe_count = 0
           THEN Step([r1 EXCEPT !.outbox = Append(@, add_padding_to_audio(r1.audio)),
                                !.transcribe_count = @ + 1])
           ELSE Step(r1)
    /\ Goto(t, "tr_poll")
    /\ UNCHANGED Rest

\* lines 1018-1029: a response is there: recv
TrRecv(t) ==
    /\ th[t].pc = "tr_poll"
    /\ rec.transcribe_count > 0
    /\ pipe.resp # <<>>
    /\ rec' = [Clr(rec) EXCEPT !.transcribe_count = @ - 1]
    /\ pipe' = [pipe EXCEPT !.resp = Tail(@)]
    /\ mon' = mon
    /\ th' = [th EXCEPT ![t].status = Head(pipe.resp)[1],
                        ![t].result = Head(pipe.resp)[2]]
    /\ UNCHANGED Rest

\* lines 1021-1024: no response and the interrupt is set
TrInterrupted(t) ==
    /\ th[t].pc = "tr_poll"
    /\ rec.transcribe_count > 0
    /\ pipe.resp = <<>>
    /\ rec.interrupt_stop_event
    /\ Step([Clr(rec) EXCEPT !.was_interrupted = TRUE,
                             !.was_interrupted_woken = WaitsForInterrupted])
    /\ th' = [th EXCEPT ![t].pc = "tr_abort", ![t].old = rec.state]
    /\ UNCHANGED Rest

\* lines 1024-1025: the write of _set_state("inactive"); return ""
TrAbort(t) ==
    /\ th[t].pc = "tr_abort"
    /\ Step(set_state_write(Clr(rec), th[t].old, "inactive"))
    /\ Return(t, "empty")
    /\ UNCHANGED Rest

\* lines 1031-1032: all responses received
TrDone(t) ==
    /\ th[t].pc = "tr_poll"
    /\ rec.transcribe_count = 0
    /\ Step([Clr(rec) EXCEPT !.allowed_to_early_transcribe = TRUE])
    /\ th' = [th EXCEPT ![t].pc = "tr_inactive", ![t].old = rec.state]
    /\ UNCHANGED Rest

\* transcribe() returning with the state left as it is
TrReturn_keeps_state(t) ==
    /\ th[t].pc = "tr_inactive"
    /\ StepMon(Clr(rec), [mon EXCEPT !.lastTr = TrOutcome(@, th[t].status)])
    /\ Return(t, IF th[t].status = "success"
                 THEN IF rec.interrupt_stop_event THEN "empty" ELSE "text"
                 ELSE "raised")
    /\ UNCHANGED Rest

\* lines 1032-1049: the write of _set_state("inactive"), the value returned
TrReturn(t) ==
    /\ th[t].pc = "tr_inactive"
    /\ StepMon(set_state_write(Clr(rec), th[t].old, "inactive"),
               [mon EXCEPT !.lastTr = TrOutcome(@, th[t].status)])
    /\ Return(t, IF th[t].status = "success"
                 THEN IF rec.interrupt_stop_event THEN "empty" ELSE "text"
                 ELSE "raised")
    /\ UNCHANGED Rest

\* values a state request can carry: the five states and one that is none of them
StateRequests == RecorderState \cup {"paused"}

\* _set_state(new_state) called on its own: up to the read of the old state
\* (state_machine.py line 48)
SetState(t) ==
    /\ th[t].pc = "idle"
    /\ \E s \in StateRequests :
         th' = [th EXCEPT ![t] = [Idle EXCEPT !.pc = "ss_write", !.call = s,
                                             !.old = rec.state]]
    /\ Step(Clr(rec))
    /\ UNCHANGED Rest

\* ... and the rest of it
SetStateWrite(t) ==
    /\ th[t].pc = "ss_write"
    /\ Step(set_state_write(Clr(rec), th[t].old, th[t].call))
    /\ Return(t, IF th[t].call = (IF th[t].call \in RecorderState
                                  THEN th[t].old ELSE rec.state)
                 THEN "set_state_same" ELSE "set_state_done")
    /\ UNCHANGED Rest

\* shutdown() lines 1256-1265: already shut down, or the flag and the events
Shutdown(t) ==
    /\ th[t].pc = "idle"
    /\ IF rec.is_shut_down
       THEN /\ Step(Clr(rec))
            /\ Return(t, "shutdown_noop")
       ELSE /\ Step([Clr(rec) EXCEPT !.is_shut_down = TRUE,
                                     !.start_recording_event = TRUE,
                                     !.stop_recording_event = TRUE])
            /\ th' = [th EXCEPT ![t] = [Idle EXCEPT !.pc = "sd_flags", !.call = "shutdown"]]
    /\ UNCHANGED Rest

\* lines 1267-1269
SdFlags(t) ==
    /\ th[t].pc = "sd_flags"
    /\ Step([Clr(rec) EXCEPT !.shutdown_event = TRUE,
                             !.is_recording = FALSE,
                             !.is_running = FALSE])
    /\ Goto(t, "sd_join")
    /\ UNCHANGED Rest

\* lines 1272-1273: recording_thread.join()
SdJoin(t) ==
    /\ th[t].pc = "sd_join"
    /\ wk.pc = "done"
    /\ Step(Clr(rec))
    /\ Goto(t, "sd_reader")
    /\ UNCHANGED Rest

\* lines 1278-1285: reader_process.join(timeout=10), terminate() if still alive
SdReader(t) ==
    /\ th[t].pc = "sd_reader"
    /\ Step([Clr(rec) EXCEPT !.reader_alive = FALSE])
    /\ Goto(t, "sd_close")
    /\ UNCHANGED Rest

\* lines 1289-1292: transcriber.close(timeout=10); shutdown() returns
SdClose(t) ==
    /\ th[t].pc = "sd_close"
    /\ Step([Clr(rec) EXCEPT !.transcriber_closed = TRUE])
    /\ Return(t, "shutdown_done")
    /\ UNCHANGED Rest

\* durations a caller passes to stop(), in units of 1/SecDen s
SecArgs == IF cfg.env_backdates THEN 0..MaxSecNum ELSE {0}

\* start(): the guard, and the read inside _set_state(RECORDING)
Start(t) ==
    /\ th[t].pc = "idle"
    /\ Step(Clr(rec))
    /\ IF start_too_soon(rec)
       THEN Return(t, "start_ignored")
       ELSE th' = [th EXCEPT ![t] = [Idle EXCEPT !.pc = "start_set", !.old = rec.state]]
    /\ UNCHANGED Rest

\* start() lines 1131-1149
StartBody(t) ==
    /\ th[t].pc = "start_set"
    /\ Step(start_body(Clr(rec), th[t].old))
    /\ Return(t, "start_done")
    /\ UNCHANGED Rest

\* stop(backdate_stop_seconds, backdate_resume_seconds)
Stop(t) ==
    /\ th[t].pc = "idle"
    /\ \E s \in SecArgs, b \in SecArgs : Step(stop(Clr(rec), s, b))
    /\ Return(t, IF stop_too_soon(rec) THEN "stop_ignored" ELSE "stop_done")
    /\ UNCHANGED Rest

\* listen(): line 1199 and the read inside _set_state(LISTENING)
Listen(t) ==
    /\ th[t].pc = "idle"
    /\ StepMon([Clr(rec) EXCEPT !.listen_start = now],
               [mon EXCEPT !.listenFrom = captured])
    /\ th' = [th EXCEPT ![t] = [Idle EXCEPT !.pc = "listen_set", !.old = rec.state]]
    /\ UNCHANGED Rest

\* listen() lines 1200-1201
ListenSet(t) ==
    /\ th[t].pc = "listen_set"
    /\ Step([set_state_write(Clr(rec), th[t].old, "listening")
                EXCEPT !.start_recording_on_voice_activity = TRUE])
    /\ Return(t, "listen")
    /\ UNCHANGED Rest

\* text() is polling for a response that has not come
WaitsForResponse(u) ==
    /\ th[u].call = "text"
    /\ th[u].pc = "tr_poll"
    /\ th[u].status = ""
    /\ pipe.resp = <<>>

\* abort() lines 875-879
AbortCall(t) ==
    /\ th[t].pc = "idle"
    /\ StepMark([Clr(rec) EXCEPT !.start_recording_on_voice_activity = FALSE,
                                 !.stop_recording_on_voice_deactivity = FALSE,
                                 !.interrupt_stop_event = TRUE,
                                 !.was_interrupted_woken =
                                     rec.state # "inactive" /\ rec.was_interrupted],
                \E u \in Callers \ {t} : WaitsForResponse(u))
    /\ th' = [th EXCEPT ![t] = [Idle EXCEPT !.call = "abort",
                  !.pc = IF rec.state # "inactive" THEN "abort_wait" ELSE "abort_end"]]
    /\ UNCHANGED Rest

\* lines 880-881: was_interrupted.wait() returns (the event was set when the
\* wait began, or has been set since); the read inside _set_state
AbortWait(t) ==
    /\ th[t].pc = "abort_wait"
    /\ rec.was_interrupted_woken
    /\ Step([Clr(rec) EXCEPT !.was_interrupted_woken = FALSE])
    /\ th' = [th EXCEPT ![t].pc = "abort_set", ![t].old = rec.state]
    /\ UNCHANGED Rest

\* line 881: the write of _set_state(TRANSCRIBING)
AbortSet(t) ==
    /\ th[t].pc = "abort_set"
    /\ Step(set_state_write(Clr(rec), th[t].old, "transcribing"))
    /\ Goto(t, "abort_end")
    /\ UNCHANGED Rest

\* lines 882-884
AbortEnd(t) ==
    /\ th[t].pc = "abort_end"
    /\ LET r1 == [Clr(rec) EXCEPT !.was_interrupted = FALSE]
       IN  Step(IF r1.is_recording THEN stop(r1, 0, 0) ELSE r1)
    /\ Return(t, "aborted")
    /\ UNCHANGED Rest

\* ------------------------------------------------------------- ASRService
\* values config.json or set_config_value can give USE_REMOTE_ASR ("unset": no
\* such key, get_config_value returns None), as JSON text
ConfigValues == {"unset", "true", "false", "0", "1", "\"\"", "\"false\""}

\* config.set_config_value("USE_REMOTE_ASR", value)
set_config_value ==
    /\ \E value \in ConfigValues \ {"unset"} :
         svc' = [svc EXCEPT !.USE_REMOTE_ASR = value]
    /\ UNCHANGED <<cfg, rec, wk, th, now, audio_queue, captured, pipe, mon>>

\* Python's bool() of a configuration value
PyBool(value) == value \notin {"false", "0", "\"\""}

\* a constructor that takes the local strategy when the key is not set
ASRService_init_local_default ==
    /\ LET flag == svc.USE_REMOTE_ASR
           use_remote == IF flag # "unset" THEN PyBool(flag) ELSE FALSE
       IN  svc' = [svc EXCEPT
                     !.strategy = IF use_remote THEN "RemoteASRStrategy"
                                  ELSE "LocalASRStrategy",
                     !.remote_flag = use_remote,
                     !.flag = flag,
                     !.pc = "idle",
                     !.parts = <<>>,
                     !.finals = <<>>,
                     !.returned = FALSE,
                     !.final_text = <<>>]
    /\ UNCHANGED <<cfg, rec, wk, th, now, audio_queue, captured, pipe, mon>>

\* ASRService.__init__ (flag notes the value it read; a new service has
\* transcribed nothing, and a service replaced is used no more)
ASRService_init ==
    /\ LET flag == svc.USE_REMOTE_ASR
           use_remote == IF flag # "unset" THEN PyBool(flag) ELSE TRUE
       IN  svc' = [svc EXCEPT
                     !.strategy = IF use_remote THEN "RemoteASRStrategy"
                                  ELSE "LocalASRStrategy",
                     !.remote_flag = use_remote,
                     !.flag = flag,
                     !.pc = "idle",
                     !.parts = <<>>,
                     !.finals = <<>>,
                     !.returned = FALSE,
                     !.final_text = <<>>]
    /\ UNCHANGED <<cfg, rec, wk, th, now, audio_queue, captured, pipe, mon>>

\* str.strip(): white space off both ends
RECURSIVE Strip(_)
Strip(text) ==
    IF text = <<>> THEN <<>>
    ELSE IF Head(text) = " " THEN Strip(Tail(text))
    ELSE IF text[Len(text)] = " " THEN Strip(SubSeq(text, 1, Len(text) - 1))
    ELSE text

\* the separator of line 554, the ideographic full stop, as one character
FullStop == "U+3002"

\* sep.join(texts)
RECURSIVE Join(_, _)
Join(sep, texts) ==
    IF texts = <<>> THEN <<>>
    ELSE IF Len(texts) = 1 THEN texts[1]
    ELSE texts[1] \o <<sep>> \o Join(sep, Tail(texts))

\* the body of the loop taking every part with a text
finals_with_drafts(finals, part) ==
    IF part.has_text /\ part.text # <<>> THEN Append(finals, Strip(part.text))
    ELSE finals

\* lines 552-553: the body of the loop over the parts the strategy yields
finals_of(finals, part) ==
    IF part.is_final /\ part.has_text /\ part.text # <<>>
    THEN Append(finals, Strip(part.text))
    ELSE finals

\* the most parts a strategy yields for one stream
MaxParts == 2
\* texts a part can carry: plain, padded with white space, white space alone,
\* empty; has_text is off for a part with no "text" key
Texts == {<<"a">>, <<"b">>, <<" ", "a", " ">>, <<" ">>, <<>>}
Parts == [text : Texts, has_text : {TRUE}, is_final : BOOLEAN]
         \cup [text : {<<>>}, has_text : {FALSE}, is_final : BOOLEAN]

\* ASRService.transcribe_stream_finalize called: finals = []
transcribe_stream_finalize ==
    /\ svc.strategy # "none"
    /\ svc.pc = "idle"
    /\ svc' = [svc EXCEPT !.pc = "for", !.parts = <<>>, !.finals = <<>>,
                          !.returned = FALSE, !.final_text = <<>>]
    /\ UNCHANGED <<cfg, rec, wk, th, now, audio_queue, captured, pipe, mon>>

\* the strategy yields a part and the loop takes it
FinalizePart ==
    /\ svc.pc = "for"
    /\ Len(svc.parts) < MaxParts
    /\ \E part \in Parts :
         svc' = [svc EXCEPT !.parts = Append(@, part),
                            !.finals = finals_of(@, part)]
    /\ UNCHANGED <<cfg, rec, wk, th, now, audio_queue, captured, pipe, mon>>

\* the strategy's generator ends: the join and the return
FinalizeReturn ==
    /\ svc.pc = "for"
    /\ svc' = [svc EXCEPT !.pc = "idle", !.returned = TRUE,
                          !.final_text = Join(FullStop, svc.finals)]
    /\ UNCHANGED <<cfg, rec, wk, th, now, audio_queue, captured, pipe, mon>>

\* ------------------------------------------------------------------- Init
\* fields as __init__ leaves them (lines 245-280, 325-326, 463-478, 1300-1304)
InitRec ==
    [state |-> "inactive",
     is_recording |-> FALSE,
     frames |-> <<>>,
     last_frames |-> <<>>,
     audio |-> <<>>,
     audio_buffer |-> <<>>,
     listen_start |-> 0,
     recording_start_time |-> 0,
     recording_stop_time |-> 0,
     wake_word_detect_time |-> 0,
     speech_end_silence_start |-> 0,
     wakeword_detected |-> FALSE,
     is_webrtc_speech_active |-> FALSE,
     is_silero_speech_active |-> FALSE,
     silero_working |-> FALSE,
     silero_threads |-> 0,
     start_recording_on_voice_activity |-> FALSE,
     stop_recording_on_voice_deactivity |-> FALSE,
     start_recording_event |-> FALSE,
     stop_recording_event |-> FALSE,
     interrupt_stop_event |-> FALSE,
     was_interrupted |-> FALSE,
     was_interrupted_woken |-> FALSE,
     backdate_stop_seconds |-> 0,
     backdate_resume_seconds |-> 0,
     transcribe_count |-> 0,
     allowed_to_early_transcribe |-> TRUE,
     was_recording |-> FALSE,
     delay_was_passed |-> FALSE,
     wakeword_samples_to_remove |-> 0,
     failed_stop_attempt |-> FALSE,
     is_speech |-> FALSE,
     is_running |-> TRUE,
     is_shut_down |-> FALSE,
     shutdown_event |-> FALSE,
     reader_alive |-> TRUE,
     reader_buffer |-> <<>>,
     buffer |-> <<>>,
     transcriber_closed |-> FALSE,
     ready_event |-> TRUE,
     transcriber_state |-> "serving",
     model_loaded |-> TRUE,
     model_warm |-> TRUE,
     fired |-> <<>>,
     outbox |-> <<>>]

\* the defaults of __init__, durations in clock ticks
DefaultCfg ==
    [use_wake_words |-> FALSE,
     wake_word_activation_delay |-> 0,
     wake_word_timeout |-> 2,
     wake_word_buffer_duration |-> 1,
     min_length_of_recording |-> 1,
     min_gap_between_recordings |-> 0,
     post_speech_silence_duration |-> 1,
     pre_recording_buffer_duration |-> 2,
     early_transcription_on_silence |-> 0,
     silero_deactivity_detection |-> FALSE,
     handle_buffer_overflow |-> TRUE,
     allowed_latency_limit |-> 100,
     env_chunks |-> MaxChunks,
     env_ticks |-> MaxTicks,
     env_max_queue |-> 1,
     env_engine_fails |-> FALSE,
     env_backdates |-> FALSE,
     env_construct |-> FALSE,
     env_script |-> FALSE,
     env_second |-> 1,
     env_speech |-> {},
     env_onset |-> 0,
     env_offset |-> 0]

\* the state __init__ leaves, or, with env_construct, the state at its line 329:
\* thread T about to construct the transcription client, nothing started yet
InitWith(c) ==
    /\ cfg = c
    /\ rec = IF c.env_construct
             THEN [InitRec EXCEPT !.is_running = FALSE,
                                  !.reader_alive = FALSE,
                                  !.ready_event = FALSE,
                                  !.transcriber_state = "none",
                                  !.model_loaded = FALSE,
                                  !.model_warm = FALSE]
             ELSE InitRec
    /\ wk = [pc |-> IF c.env_construct THEN "new" ELSE "loop",
             data |-> <<>>, dp |-> FALSE, old |-> "", new |-> ""]
    /\ th = [t \in Callers |-> IF c.env_construct /\ t = "T"
                                THEN [Idle EXCEPT !.pc = "init"] ELSE Idle]
    /\ now = T0
    /\ audio_queue = <<>>
    /\ captured = 0
    /\ pipe = [req |-> <<>>, resp |-> <<>>]
    /\ mon = [lastRec |-> "none", lastVad |-> "none", recTwice |-> FALSE, vadBad |-> FALSE,
              abortTx |-> FALSE, listenFrom |-> 0,
              wakeChunk |-> 0, wakeRec |-> FALSE,
              prevAudio |-> <<>>, prevResume |-> 0, cycled |-> FALSE,
              lastChunk |-> 0, skipped |-> 0, lastTr |-> "none",
              nread |-> 0, readIn |-> <<>>, fedIn |-> <<>>]
    /\ svc = [USE_REMOTE_ASR |-> "unset", strategy |-> "none", remote_flag |-> FALSE,
              flag |-> "unset", pc |-> "idle", parts |-> <<>>, finals |-> <<>>,
              returned |-> FALSE, final_text |-> <<>>]

\* ------------------------------------------------------- specifications
Worker == WRecording \/ WNotRecRead \/ WNotRecWrite \/ WNotRecNoSet
WaitAudioOf(t) == WaitAudio(t) \/ WaEnter(t) \/ WaListen(t) \/ WaStart(t) \/ WaRec(t)
                  \/ WaStop(t) \/ WaAssemble(t) \/ WaInactive(t)
TextOf(t) == Text(t) \/ WaEnter(t) \/ WaListen(t) \/ WaStart(t) \/ WaRec(t)
             \/ WaStop(t) \/ WaAssemble(t) \/ WaInactive(t) \/ TextCheck(t) \/ TrSet(t)
             \/ TrRecv(t) \/ TrInterrupted(t) \/ TrAbort(t) \/ TrDone(t) \/ TrReturn(t)
StartStopOf(t) == Start(t) \/ StartBody(t) \/ Stop(t)
ListenOf(t) == Listen(t) \/ ListenSet(t)
AbortOf(t) == AbortCall(t) \/ AbortWait(t) \/ AbortSet(t) \/ AbortEnd(t)
SetStateOf(t) == SetState(t) \/ SetStateWrite(t)
ShutdownOf(t) == Shutdown(t) \/ SdFlags(t) \/ SdJoin(t) \/ SdReader(t) \/ SdClose(t)
\* text() with no interrupt
TextRunOf(t) == Text(t) \/ WaEnter(t) \/ WaListen(t) \/ WaStart(t) \/ WaRec(t)
                \/ WaStop(t) \/ WaAssemble(t) \/ WaInactive(t) \/ TextCheck(t) \/ TrSet(t)
                \/ TrRecv(t) \/ TrDone(t) \/ TrReturn(t)

\* one caller driving start / stop / wait_audio by hand, the loop running
Init == InitWith([DefaultCfg EXCEPT !.min_gap_between_recordings = 1])
Next == Tick \/ Capture \/ SileroDone \/ Worker
        \/ StartStopOf("U") \/ WaitAudioOf("U")
Spec == Init /\ [][Next]_vars

\* text() in one thread, abort() from another, the transcriber answering
InitAbort == InitWith([DefaultCfg EXCEPT !.min_length_of_recording = 0,
                                         !.post_speech_silence_duration = 0,
                                         !.env_ticks = 1])
NextAbort == Tick \/ Capture \/ SileroDone \/ Worker \/ Transcriber
             \/ TextOf("T") \/ AbortOf("U")
SpecAbort == InitAbort /\ [][NextAbort]_vars
\* the same on an input of three chunks, one of speech, then silence, with the thread
\* of text() scheduled again and again, and nothing asked of the capture side,
\* the loop, the engine or the thread of abort()
InitInterrupt == InitWith([DefaultCfg EXCEPT !.min_length_of_recording = 0,
                                             !.post_speech_silence_duration = 0,
                                             !.env_script = TRUE,
                                             !.env_speech = {1},
                                             !.env_onset = 1,
                                             !.env_offset = 1,
                                             !.env_chunks = 3,
                                             !.env_ticks = 1])
SpecInterrupt == InitInterrupt /\ [][NextAbort]_vars /\ WF_vars(TextOf("T"))

\* the same input, every thread of the recorder scheduled again and again: the
\* callers of text() and of abort(), the decision loop, the Silero check, the
\* transcription worker
SpecHalt ==
    /\ InitInterrupt /\ [][NextAbort]_vars
    /\ WF_vars(TextOf("T")) /\ WF_vars(AbortOf("U"))
    /\ WF_vars(SileroDone) /\ WF_vars(Transcriber)

\* text() again and again in one thread, abort() from another, on a scripted
\* input of two utterances, a chunk a time unit: speech, the silence that ends
\* the recording, and the same once more
SpecStale ==
    /\ InitWith([DefaultCfg EXCEPT !.min_length_of_recording = 0,
                                   !.post_speech_silence_duration = 0,
                                   !.env_script = TRUE,
                                   !.env_speech = {1, 4},
                                   !.env_onset = 1,
                                   !.env_offset = 4,
                                   !.env_chunks = 6])
    /\ [][Feed \/ SileroDone \/ Worker \/ Transcriber
           \/ TextOf("T") \/ AbortOf("U")]_vars

\* the loop starting recordings on voice, a caller starting and stopping by hand
InitPreRoll == InitWith([DefaultCfg EXCEPT !.min_length_of_recording = 0,
                                           !.env_chunks = MaxChunks + 1,
                                           !.env_ticks = 0])
NextPreRoll == Capture \/ SileroDone \/ Worker \/ StartStopOf("U") \/ ListenOf("U")
SpecPreRoll == InitPreRoll /\ [][NextPreRoll]_vars

\* wake words on: wait_audio() in one thread, the loop detecting and recording
InitWake == InitWith([DefaultCfg EXCEPT !.use_wake_words = TRUE,
                                        !.min_length_of_recording = 0,
                                        !.post_speech_silence_duration = 0,
                                        !.env_chunks = MaxChunks + 1,
                                        !.env_ticks = 2])
NextWake == Tick \/ Capture \/ SileroDone \/ Worker \/ WaitAudioOf("T")
SpecWake == InitWake /\ [][NextWake]_vars

\* the same with a wake word timing out as soon as time has passed
InitTimeout == InitWith([DefaultCfg EXCEPT !.use_wake_words = TRUE,
                                           !.wake_word_timeout = 0,
                                           !.min_length_of_recording = 0,
                                           !.post_speech_silence_duration = 0,
                                           !.env_chunks = MaxChunks + 1,
                                           !.env_ticks = 2])
SpecTimeout == InitTimeout /\ [][NextWake]_vars

\* wake words timing out, wait_audio() in one thread, listen() in another
SpecLate ==
    /\ InitWith([DefaultCfg EXCEPT !.use_wake_words = TRUE,
                                   !.wake_word_timeout = 0,
                                   !.min_length_of_recording = 0,
                                   !.post_speech_silence_duration = 0,
                                   !.env_chunks = MaxChunks + 1,
                                   !.env_ticks = 2])
    /\ [][NextWake \/ ListenOf("U")]_vars

\* wake words with an activation delay of one second
SpecDelay ==
    /\ InitWith([DefaultCfg EXCEPT !.use_wake_words = TRUE,
                                   !.wake_word_activation_delay = 1,
                                   !.min_length_of_recording = 0,
                                   !.post_speech_silence_duration = 0,
                                   !.env_chunks = MaxChunks + 1,
                                   !.env_ticks = 2])
    /\ [][NextWake]_vars

\* one caller recording by hand with backdates, then assembling
InitBackdate == InitWith([DefaultCfg EXCEPT !.min_length_of_recording = 0,
                                            !.post_speech_silence_duration = 0,
                                            !.env_backdates = TRUE,
                                            !.env_chunks = MaxChunks - 1,
                                            !.env_ticks = 1])
NextBackdate == Tick \/ Capture \/ SileroDone \/ Worker
                \/ WaitAudioOf("T") \/ StartStopOf("T")
SpecBackdate == InitBackdate /\ [][NextBackdate]_vars

\* the capture thread running ahead of the loop: a backlog above the latency
\* limit (nobody listens, so no Silero check is ever started)
InitOverflow == InitWith([DefaultCfg EXCEPT !.min_length_of_recording = 0,
                                            !.allowed_latency_limit = 1,
                                            !.env_max_queue = MaxChunks + 1,
                                            !.env_chunks = MaxChunks + 2,
                                            !.env_ticks = 0])
NextOverflow == Capture \/ Worker \/ StartStopOf("U")
SpecOverflow == InitOverflow /\ [][NextOverflow]_vars

\* text() on a scripted input, a chunk a time unit, env_second chunks a second:
\* 2 s of silence, 1 s of speech, 1 s of silence, post_speech_silence_duration
\* 0.6 s, min_length_of_recording 0.4 s, a pre-roll of AudioBufferMaxLen chunks
InitScenario == InitWith([DefaultCfg EXCEPT !.env_script = TRUE,
                                            !.env_second = 5,
                                            !.env_speech = 11..15,
                                            !.env_onset = 11,
                                            !.env_offset = 15,
                                            !.env_chunks = 20,
                                            !.post_speech_silence_duration = 3,
                                            !.min_length_of_recording = 2])
NextScenario == Feed \/ SileroDone \/ Worker \/ Transcriber \/ TextRunOf("T")
SpecScenario ==
    /\ InitScenario /\ [][NextScenario]_vars
    /\ WF_vars(Feed) /\ WF_vars(SileroDone) /\ WF_vars(Worker)
    /\ WF_vars(Transcriber) /\ WF_vars(TextRunOf("T"))

\* early transcription on, text() on a scripted input, a chunk a time unit:
\* speech, silence, speech again, then the silence that ends the recording
InitEarly == InitWith([DefaultCfg EXCEPT !.early_transcription_on_silence = 1,
                                         !.min_length_of_recording = 0,
                                         !.post_speech_silence_duration = 3,
                                         !.env_script = TRUE,
                                         !.env_speech = {1, 6},
                                         !.env_onset = 1,
                                         !.env_offset = 6,
                                         !.env_chunks = 11])
NextEarly == Feed \/ SileroDone \/ Worker \/ Transcriber \/ TextRunOf("T")
SpecEarly == InitEarly /\ [][NextEarly]_vars

\* state requests of any value from a caller, the loop running, start and stop
\* (nobody listens, so no Silero check is ever started)
InitState == InitWith([DefaultCfg EXCEPT !.min_length_of_recording = 0,
                                         !.env_chunks = MaxChunks - 1,
                                         !.env_ticks = 0])
NextState == Capture \/ Worker \/ StartStopOf("U") \/ SetStateOf("T")
SpecState == InitState /\ [][NextState]_vars

\* Silero deciding the end of speech: wait_audio() in one thread, start() and
\* stop() by hand in another, the loop running
InitSilero == InitWith([DefaultCfg EXCEPT !.silero_deactivity_detection = TRUE,
                                          !.min_length_of_recording = 0,
                                          !.env_chunks = MaxChunks - 1,
                                          !.env_ticks = 0])
NextSilero == Capture \/ SileroDone \/ Worker \/ WaitAudioOf("T") \/ StartStopOf("U")
SpecSilero == InitSilero /\ [][NextSilero]_vars

\* the engine failing at will: a caller records by hand, text() transcribes
InitFail == InitWith([DefaultCfg EXCEPT !.env_engine_fails = TRUE,
                                        !.min_length_of_recording = 0,
                                        !.env_chunks = MaxChunks - 2,
                                        !.env_ticks = 0])
NextFail == Capture \/ SileroDone \/ Worker \/ Transcriber
            \/ StartStopOf("U") \/ TextRunOf("T")
SpecFail == InitFail /\ [][NextFail]_vars

\* shutdown() from one thread with wait_audio() in another, the loop and the
\* capture worker running until they are told to end
InitShutdown == InitWith([DefaultCfg EXCEPT !.min_length_of_recording = 0,
                                            !.post_speech_silence_duration = 0,
                                            !.env_chunks = MaxChunks + 1,
                                            !.env_ticks = 1])
NextShutdown == Tick \/ Capture \/ ReaderExit \/ SileroDone \/ Worker \/ WEmpty
                \/ WaitAudioOf("T") \/ ShutdownOf("U")
SpecShutdown == InitShutdown /\ [][NextShutdown]_vars

\* wait_audio() in one thread, start() and stop() by hand in another, on an
\* input of silence, a chunk a time unit (so no Silero check is ever started):
\* a silence timer left running by one recording meets the next
InitGuard == InitWith([DefaultCfg EXCEPT !.min_length_of_recording = 2,
                                         !.env_script = TRUE,
                                         !.env_chunks = MaxChunks + 1])
NextGuard == Feed \/ Worker \/ WaitAudioOf("T") \/ StartStopOf("U")
SpecGuard == InitGuard /\ [][NextGuard]_vars

\* the capture side alone: the capture worker reading, a caller feeding, a
\* second caller shutting down (the decision loop does not take from the queue)
NextReader == audio_data_worker \/ feed_audio("T") \/ ReaderExit
              \/ Shutdown("U") \/ SdFlags("U")
SpecReader == Init /\ [][NextReader]_vars

\* the recorder under construction, the transcription worker loading its
\* model (or failing to), then text() on the scripted input of SpecEarly
InitClient == InitWith([DefaultCfg EXCEPT !.env_construct = TRUE,
                                          !.env_engine_fails = TRUE,
                                          !.early_transcription_on_silence = 1,
                                          !.min_length_of_recording = 0,
                                          !.post_speech_silence_duration = 3,
                                          !.env_script = TRUE,
                                          !.env_speech = {1, 6},
                                          !.env_onset = 1,
                                          !.env_offset = 6,
                                          !.env_chunks = 11])
NextClient == RecInit("T") \/ RecInitEnd("T") \/ TwLoad \/ TwWarmup \/ TwReady
              \/ Feed \/ SileroDone \/ Worker \/ Transcriber \/ TextRunOf("T")
SpecClient == InitClient /\ [][NextClient]_vars

\* the ASR service: the configuration set, services constructed, streams
\* transcribed to the end
NextService == set_config_value \/ ASRService_init \/ transcribe_stream_finalize
               \/ FinalizePart \/ FinalizeReturn
SpecService == Init /\ [][NextService]_vars

\* ------------------------------------------------------------------ claims
Range(s) == {s[i] : i \in DOMAIN s}
\* the step fired callback e
FiredNow(e) == e \in Range(rec'.fired)

\* a step in which a stop() passed its guard: by a caller, or by the decision loop
StopPassed ==
    \/ \E t \in Callers : Stop(t) /\ ~(now - rec.recording_start_time
                                         < cfg.min_length_of_recording)
    \/ WRecording /\ rec.is_recording /\ ~rec'.is_recording

\* C1: stop() called before min_length_of_recording has elapsed since the last
\* start() has no effect: is_recording stays true, the state, the stop event,
\* last_frames and the backdate parameters are unchanged, on_recording_stop
\* does not fire.
C1_StopTooSoonNoEffect ==
    [][ \A t \in Callers :
          (Stop(t) /\ rec.is_recording
             /\ now - rec.recording_start_time < cfg.min_length_of_recording)
          => /\ rec'.is_recording
             /\ rec'.state = rec.state
             /\ ~rec'.stop_recording_event
             /\ rec'.last_frames = rec.last_frames
             /\ rec'.backdate_stop_seconds = rec.backdate_stop_seconds
             /\ rec'.backdate_resume_seconds = rec.backdate_resume_seconds
             /\ rec'.frames = rec.frames
             /\ ~FiredNow("on_recording_stop") ]_vars

\* a stop() came back from its guard while the recording it was meant for goes on
C1_Witness ==
    /\ th["U"].ret = "stop_ignored"
    /\ rec.is_recording
    /\ rec.state = "recording"
    /\ now - rec.recording_start_time < cfg.min_length_of_recording

\* C2: start() called within min_gap_between_recordings of the previous
\* successful stop() has no effect: it returns at once, and the state,
\* is_recording, frames, the start/stop events and the wake-word flags are
\* unchanged, on_recording_start does not fire.
C2_StartTooSoonNoEffect ==
    [][ \A t \in Callers :
          (Start(t) /\ rec.recording_stop_time # 0
             /\ now - rec.recording_stop_time < cfg.min_gap_between_recordings)
          => /\ th'[t].pc = "idle"
             /\ rec'.state = rec.state
             /\ rec'.is_recording = rec.is_recording
             /\ rec'.frames = rec.frames
             /\ rec'.start_recording_event = rec.start_recording_event
             /\ rec'.stop_recording_event = rec.stop_recording_event
             /\ rec'.wakeword_detected = rec.wakeword_detected
             /\ rec'.wake_word_detect_time = rec.wake_word_detect_time
             /\ rec'.recording_start_time = rec.recording_start_time
             /\ ~FiredNow("on_recording_start") ]_vars

\* a start() came back from its guard right after a stop that went through
C2_Witness ==
    /\ th["U"].ret = "start_ignored"
    /\ ~rec.is_recording
    /\ rec.stop_recording_event
    /\ now - rec.recording_stop_time < cfg.min_gap_between_recordings

\* C4: on_recording_start never fires twice in a row without an entry into
\* Transcribing or into Inactive between the two.
C4_NoTwoRecordingStarts == ~mon.recTwice

TriggerData == IF wk.pc = "set" THEN wk.data ELSE Popped.data
\* chunks a .. b of the capture stream
Consecutive(a, b) == [i \in 1..(b - a + 1) |-> Chunk(a + i - 1)]
\* an iteration of the loop that started a recording on voice activity
VoiceStart ==
    /\ WNotRecWrite \/ WNotRecNoSet
    /\ ~rec.is_recording
    /\ rec'.is_recording

\* C7: a recording started by the loop on voice activity begins with the N
\* seconds of audio immediately preceding the triggering chunk, in order and
\* without gaps, N = min(pre_recording_buffer_duration, elapsed listening time)
\* (in whole chunks, as the pre-roll buffer holds them), then the triggering chunk.
C7_PreRollPrecedesTrigger ==
    [][ (VoiceStart /\ rec.listen_start # 0)
          => LET k == ChunkNo(TriggerData)
                 n == Max(0, Min(AudioBufferMaxLen, k - 1 - mon.listenFrom))
             IN  rec'.frames = Consecutive(k - n, k) ]_vars

\* the n samples of the capture stream that end with sample e
Window(e, n) == {x \in 1..e : x > e - n}
\* the samples an assembled utterance is made of
UtteranceSamples(audio) == {audio[i].num : i \in DOMAIN audio}
\* wait_audio() assembling an utterance
Assembling == \E t \in Callers : WaAssemble(t)

\* C8: the utterance of a wake-word-triggered recording contains none of the
\* audio captured during the wake_word_buffer_duration seconds immediately
\* preceding the wake-word trigger (counted up to the end of the chunk the wake
\* word was detected on, or up to its beginning).
C8_WakeWordExcised ==
    [][ (Assembling /\ mon.wakeRec)
          => LET n == (SampleRate * cfg.wake_word_buffer_duration) \div SecDen
                 u == UtteranceSamples(rec'.audio)
             IN  \/ Window(mon.wakeChunk * BufferSize, n) \cap u = {}
                 \/ Window((mon.wakeChunk - 1) * BufferSize, n) \cap u = {} ]_vars

\* the audio recorded, as wait_audio() finds it
RecordedAudio ==
    MapSeq(ToFloat32, Flatten(IF rec.frames = <<>> THEN rec.last_frames ELSE rec.frames))

\* C9 as claimed: after stop(backdate_stop_seconds = s) the utterance assembled
\* by wait_audio() is the recorded audio with round(s * sample_rate) trailing
\* samples removed, empty when that count is at least the total length.
C9_BackdateStopRounds ==
    [][ Assembling
          => rec'.audio = DropLast(RecordedAudio,
                                   PyRound(SampleRate * rec.backdate_stop_seconds, SecDen))
      ]_vars

\* C9 amended: the utterance is the recorded audio with int(s * sample_rate)
\* trailing samples removed (the product truncated, not rounded), empty when
\* that count is at least the total length.
C9_BackdateStopTruncates ==
    [][ Assembling
          => LET n == (SampleRate * rec.backdate_stop_seconds) \div SecDen
             IN  rec'.audio = IF n >= Len(RecordedAudio) THEN <<>>
                              ELSE SubSeq(RecordedAudio, 1, Len(RecordedAudio) - n)
      ]_vars

\* an utterance assembled after a stop whose s * sample_rate is not whole
C9_Witness ==
    \E t \in Callers :
        /\ th[t].pc = "wa_inactive"
        /\ th[t].samples_to_remove = 1
        /\ rec.audio # <<>>
        /\ rec.audio[Len(rec.audio)].num % BufferSize = 1

\* C10: after stop(backdate_resume_seconds = r) and wait_audio(), the utterance
\* of the next start/stop cycle begins with the min(round(r * sample_rate),
\* total_len) trailing samples of the previous utterance.
C10_ResumeSeedsNextUtterance ==
    [][ (Assembling /\ mon.prevResume > 0 /\ mon.cycled
           /\ ~rec.is_recording /\ rec.backdate_stop_seconds = 0)
          => LET n == Min(PyRound(SampleRate * mon.prevResume, SecDen),
                          Len(mon.prevAudio))
             IN  IsPrefix(MapSeq(ToFloat32, LastN(mon.prevAudio, n)), rec'.audio) ]_vars

\* C3: abort() called while text() is blocked waiting for the transcription
\* response: text() returns the empty string and, once both calls have
\* returned, the recorder state is Inactive, not Transcribing.
C3_AbortEndsInactive ==
    (mon.abortTx /\ \A t \in Callers : th[t].pc = "idle")
      => (th["T"].ret = "empty" /\ rec.state = "inactive")

\* C5: on_vad_detect_start and on_vad_detect_stop strictly alternate,
\* beginning with a start.
C5_VadCallbacksAlternate == ~mon.vadBad

\* an iteration of the decision loop taking chunks off the queue
LoopPops == Len(audio_queue') < Len(audio_queue)

\* C11: with handle_buffer_overflow on, an iteration that finds the queue above
\* allowed_latency_limit leaves it at or below the limit; what it took off the
\* queue are the oldest chunks, the newest of them being the one it works on
\* and the older ones discarded; the chunks the loop works on come in the order
\* they were pushed.
C11_OverflowDropsOldest ==
    [][ (LoopPops /\ cfg.handle_buffer_overflow
           /\ Len(audio_queue) > cfg.allowed_latency_limit)
          => LET taken == Len(audio_queue) - Len(audio_queue')
             IN  /\ Len(audio_queue') <= cfg.allowed_latency_limit
                 /\ audio_queue' = LastN(audio_queue, Len(audio_queue'))
                 /\ audio_queue[taken] = Chunk(mon'.lastChunk)
                 /\ mon'.lastChunk > mon.lastChunk
                 /\ \A i \in DOMAIN audio_queue' :
                        ChunkNo(audio_queue'[i]) > mon'.lastChunk ]_vars

\* an iteration has just discarded chunks and gone on with a later one
C11_Witness ==
    /\ mon.skipped > 0
    /\ mon.lastChunk > 1
    /\ Len(audio_queue) = cfg.allowed_latency_limit

\* C12: text() in progress, 2 s of silence, 1 s of speech, 1 s of silence: the
\* state, Inactive at first, comes to Listening, later to Recording, later to
\* Transcribing; Recording is entered on the speech onset (by the iteration
\* that follows the one the detectors first saw speech in); the recording
\* stops post_speech_silence_duration after the speech ends, to within a chunk;
\* the utterance lasts at least 1 s and less than 2 s plus the pre-roll.
C12_SilenceSpeechSilence ==
    /\ rec.state = "inactive"
    /\ <>(rec.state = "listening"
            /\ <>(rec.state = "recording" /\ <>(rec.state = "transcribing")))
    /\ [](rec.state = "recording"
            => /\ rec.recording_start_time >= T0 + cfg.env_onset
               /\ rec.recording_start_time <= T0 + cfg.env_onset + 1)
    /\ [](rec.recording_stop_time # 0
            => /\ rec.recording_stop_time - (T0 + cfg.env_offset)
                     >= cfg.post_speech_silence_duration
               /\ rec.recording_stop_time - (T0 + cfg.env_offset)
                     <= cfg.post_speech_silence_duration + 1)
    /\ [](rec.audio # <<>>
            => /\ Len(rec.audio) >= cfg.env_second * BufferSize
               /\ Len(rec.audio) < (2 * cfg.env_second + AudioBufferMaxLen) * BufferSize)

\* text() has returned the transcription of the utterance recorded
C12_Witness ==
    /\ th["T"].ret = "text"
    /\ rec.recording_stop_time # 0
    /\ rec.audio # <<>>
    /\ rec.state = "inactive"

\* C13: at most one transcription request is outstanding on the transcription
\* client at any moment (sent and its response not yet received), and
\* transcribe_count never exceeds 1.
C13_OneRequestOutstanding ==
    /\ rec.transcribe_count <= 1
    /\ Len(pipe.req) + Len(pipe.resp) <= 1

\* C14: the recorder state is written by the decision-loop thread only: no
\* step of a caller thread (listen, wait_audio, start, stop, transcribe,
\* abort) changes it.
C14_StateWrittenByLoopOnly ==
    [][ rec'.state # rec.state => th' = th ]_vars

\* the recorder but for the callbacks and requests of the step that led to it
Settled(r) == [r EXCEPT !.fired = <<>>, !.outbox = <<>>]

\* C15: a state request whose value is none of the five states is rejected:
\* the state keeps its value, no callback fires, the call returns normally.
C15_UnknownStateRejected ==
    [][ \A t \in Callers :
          (SetStateWrite(t) /\ th[t].call \notin RecorderState)
          => /\ rec'.state = rec.state
             /\ rec'.fired = <<>>
             /\ th'[t].pc = "idle"
             /\ th'[t].ret # "raised" ]_vars

\* the request of t is for the state the recorder is in: the state the state
\* machine read for one of the five states, the state as it is for any other
\* value (which is stored without a read)
SameStateRequest(t) ==
    th[t].call = IF th[t].call \in RecorderState THEN th[t].old ELSE rec.state

\* C16: a request for the state the recorder is in changes nothing and fires
\* no callback, neither an exit callback of that state nor its entry callback.
C16_SameStateNoOp ==
    [][ \A t \in Callers :
          (SetStateWrite(t) /\ SameStateRequest(t))
          => /\ rec'.fired = <<>>
             /\ Settled(rec') = Settled(rec) ]_vars

\* a request for Listening made in Listening has returned
C16_Witness ==
    /\ th["T"].ret = "set_state_same"
    /\ rec.state = "listening"
    /\ rec.fired = <<>>
    /\ mon.lastVad = "start"

\* an iteration of the recording branch that runs the Silero check itself
SyncSilero ==
    /\ WRecording
    /\ rec.stop_recording_on_voice_deactivity
    /\ cfg.silero_deactivity_detection

\* C17: at most one Silero evaluation runs at any time: never two of the
\* asynchronous ones of the not-recording branch, and the synchronous check of
\* the recording branch is not run while an asynchronous one is under way.
C17_OneSileroEvaluation ==
    /\ [](rec.silero_threads <= 1)
    /\ [][ SyncSilero => rec.silero_threads = 0 ]_vars

\* C18: when the worker answers 'error', transcribe() raises, and it leaves
\* transcribe_count at 0 and the state Inactive; the transcribe() after it
\* sends a request for its own audio and returns the response to that request.
C18_ErrorLeavesClientClean ==
    [][ \A t \in Callers :
          /\ (TrReturn(t) /\ th[t].status = "error")
               => /\ th'[t].ret = "raised"
                  /\ rec'.transcribe_count = 0
                  /\ rec'.state = "inactive"
          /\ (TrSet(t) /\ mon.lastTr = "raised")
               => /\ rec'.outbox = <<add_padding_to_audio(rec.audio)>>
                  /\ rec'.transcribe_count = 1
          /\ (TrReturn(t) /\ mon.lastTr = "raised" /\ th[t].status = "success")
               => /\ th[t].result = add_padding_to_audio(rec.audio)
                  /\ th'[t].ret = "text" ]_vars

\* a text() has returned its transcription after the one before it had raised
C18_Witness ==
    /\ mon.lastTr = "recovered"
    /\ th["T"].ret = "text"
    /\ rec.transcribe_count = 0
    /\ rec.state = "inactive"
    /\ rec.audio # <<>>

\* t is in one of the three waits of text(): for the start event, for the
\* stop event, for the response of the engine
Blocked(t) == th[t].pc \in {"wa_start", "wa_stop", "tr_poll"}

\* C19: with the interrupt set, a caller blocked in wait_audio() (for the
\* start or the stop of a recording) or in transcribe() (for the response)
\* returns, whether or not a chunk or a response ever arrives.
C19_InterruptReleasesCaller ==
    (rec.interrupt_stop_event /\ Blocked("T")) ~> (th["T"].pc = "idle")

\* text() has come back empty-handed with the interrupt set and nothing recorded
C19_Witness ==
    /\ th["T"].ret = "empty"
    /\ rec.interrupt_stop_event
    /\ rec.recording_start_time = 0
    /\ captured = 0

\* t waits in wait_audio() for an event that is not set, the interrupt not set
\* either
WaitsInVain(t) ==
    /\ ~rec.interrupt_stop_event
    /\ \/ th[t].pc = "wa_start" /\ ~rec.start_recording_event
       \/ th[t].pc = "wa_stop" /\ ~rec.stop_recording_event

\* C20: after shutdown(), a caller blocked in wait_audio() is released, the
\* decision loop and the capture worker terminate, the transcription client
\* is asked to close only after these two are done with, and shutdown()
\* returns. Hence: the client is closed only with the loop and the capture
\* worker ended, and once shutdown() has returned (nobody is left to set an
\* event) no caller waits in wait_audio() for an event that is not set.
C20_ShutdownReleasesAll ==
    /\ rec.transcriber_closed => (wk.pc = "done" /\ ~rec.reader_alive)
    /\ (rec.transcriber_closed /\ th["U"].pc = "idle")
          => \A t \in Callers : ~WaitsInVain(t)


\* C24: every change of transcribe_count is made by a thread that holds
\* transcription_lock: the step is a caller's inside the body of the lock, not
\* an iteration of the decision loop
C24_CounterUnderLock ==
    [][rec'.transcribe_count # rec.transcribe_count
         => /\ transcription_lock' # {}
            /\ audio_queue' = audio_queue
            /\ wk' = wk]_vars


\* C25: an iteration of the decision loop that starts a recording (a step of
\* no caller that fires on_recording_start) finds both latched gate results
\* true: is_webrtc_speech_active and is_silero_speech_active
C25_StartNeedsBothGates ==
    [][(rec' # rec /\ th' = th /\ FiredNow("on_recording_start"))
         => rec.is_webrtc_speech_active /\ rec.is_silero_speech_active]_vars

\* the loop has just started a recording after a wake word, the caller still
\* waiting for the start event
C25_Witness ==
    /\ "on_recording_start" \in Range(rec.fired)
    /\ th["T"].pc = "wa_start"
    /\ rec.is_recording
    /\ mon.wakeRec


\* an iteration of the decision loop's recording branch with the deactivation
\* gate consulted (its answer is the loop's local is_speech)
RecIteration ==
    /\ rec' # rec /\ th' = th
    /\ mon'.lastChunk # mon.lastChunk
    /\ rec.is_recording /\ rec.stop_recording_on_voice_deactivity
\* ... in which the loop called stop(): the recording ended, or the attempt failed
LoopCalledStop ==
    RecIteration /\ (FiredNow("on_recording_stop") \/ rec'.failed_stop_attempt)

\* C26: the loop calls stop() only on a non-speech chunk with the silence timer
\* at post_speech_silence_duration or more; the timer starts only on a
\* non-speech chunk, at the current time, more than min_length_of_recording
\* after the recording started; a speech chunk leaves the timer at zero
C26_SilenceTimer ==
    [][/\ LoopCalledStop =>
            /\ ~rec'.is_speech
            /\ IF rec.speech_end_silence_start # 0
               THEN now - rec.speech_end_silence_start
                        >= cfg.post_speech_silence_duration
               ELSE /\ cfg.post_speech_silence_duration = 0
                    /\ now - rec.recording_start_time > cfg.min_length_of_recording
       /\ (RecIteration /\ rec.speech_end_silence_start = 0
              /\ rec'.speech_end_silence_start # 0) =>
            /\ ~rec'.is_speech
            /\ rec'.speech_end_silence_start = now
            /\ now - rec.recording_start_time > cfg.min_length_of_recording
       /\ (RecIteration /\ rec'.is_speech) =>
            rec'.speech_end_silence_start = 0]_vars

\* the loop has just ended a recording on silence, the timer having been started
\* on an earlier chunk
C26_Witness ==
    /\ "on_recording_stop" \in Range(rec.fired)
    /\ th["U"].pc = "wa_stop"
    /\ ~rec.is_recording
    /\ rec.recording_stop_time - rec.recording_start_time
          > cfg.min_length_of_recording + cfg.post_speech_silence_duration


\* an iteration of the decision loop that sends an early-transcription request
EarlySubmit == rec' # rec /\ th' = th /\ rec'.outbox # <<>>

\* C27: the loop sends an early-transcription request only on a non-speech
\* chunk with the silence timer running and with no request in flight, and the
\* iteration that sends it leaves the recording going: is_recording true, the
\* stop event not set, no on_recording_stop
C27_EarlySubmitGuarded ==
    [][EarlySubmit =>
         /\ rec.is_recording
         /\ ~rec'.is_speech
         /\ rec.speech_end_silence_start # 0 \/ rec'.speech_end_silence_start = now
         /\ rec.transcribe_count = 0
         /\ rec'.is_recording
         /\ ~rec'.stop_recording_event
         /\ ~FiredNow("on_recording_stop")]_vars


\* an iteration of the decision loop on a chunk, a recording in progress
RecChunk ==
    /\ rec' # rec /\ th' = th
    /\ mon'.lastChunk # mon.lastChunk
    /\ rec.is_recording

\* C28: the chunk of an iteration with a recording in progress is the last
\* element of the utterance frames after the iteration and is in them nowhere
\* else, whether the iteration went on recording, ended the recording with
\* stop(), or had its stop() rejected by the minimum-duration guard
C28_ChunkAppendedOnce ==
    [][RecChunk =>
         LET f == rec'.frames
             data == Chunk(mon'.lastChunk)
         IN  /\ f # <<>>
             /\ f[Len(f)] = data
             /\ \A i \in 1..(Len(f) - 1) : f[i] # data
             /\ FiredNow("on_recording_stop") => rec'.last_frames = f]_vars

\* the loop's stop() has just been rejected by the minimum-duration guard
C28_Witness ==
    /\ rec.failed_stop_attempt
    /\ rec.is_recording
    /\ rec.frames # <<>>
    /\ now - rec.recording_start_time < cfg.min_length_of_recording


\* the end of an iteration of the decision loop
IterEnd ==
    /\ rec' # rec /\ th' = th /\ wk'.pc # "set"
    /\ wk.pc = "set" \/ mon'.lastChunk # mon.lastChunk
\* a wake word detected more than wake_word_timeout ago, nothing recorded since
Expired(r) ==
    /\ r.wake_word_detect_time # 0
    /\ now - r.wake_word_detect_time > cfg.wake_word_timeout
TimeoutsFired == {i \in DOMAIN rec'.fired : rec'.fired[i] = "on_wakeword_timeout"}

\* C30: an iteration of the loop that finds a detected wake word expired, and
\* neither detects one anew nor starts a recording, fires on_wakeword_timeout
\* once and clears the detected flag and the detection time; the loop fires
\* the callback in no other iteration; a recording that starts clears the
\* detection, so its timeout does not fire
C30_WakeWordTimeout ==
    [][/\ (IterEnd /\ Expired(rec) /\ rec.wakeword_detected
              /\ ~FiredNow("on_wakeword_detected") /\ ~FiredNow("on_recording_start"))
            => Cardinality(TimeoutsFired) = 1
       /\ IterEnd => ~Expired(rec')
       /\ (rec' # rec /\ TimeoutsFired # {})
            => /\ IterEnd /\ Cardinality(TimeoutsFired) = 1
               /\ Expired(rec) /\ rec.wakeword_detected
               /\ ~rec'.wakeword_detected /\ rec'.wake_word_detect_time = 0
               /\ ~rec.is_recording /\ ~rec'.is_recording
       /\ (rec' # rec /\ FiredNow("on_recording_start"))
            => ~rec'.wakeword_detected /\ rec'.wake_word_detect_time = 0]_vars

\* the timeout has just fired
C30_Witness ==
    /\ "on_wakeword_timeout" \in Range(rec.fired)
    /\ ~rec.wakeword_detected
    /\ mon.wakeChunk > 0
    /\ ~rec.is_recording


\* the chunks on the queue put by the capture worker / by feed_audio
ReadChunks == SelectSeq(audio_queue, LAMBDA c : c[1] > 0)
FedChunks == SelectSeq(audio_queue, LAMBDA c : c[1] < 0)
AllButLast(s) == IF s = <<>> THEN <<>> ELSE SubSeq(s, 1, Len(s) - 1)

\* C29: for either producer, every chunk put before the shutdown has exactly
\* 2 * buffer_size bytes (BufferSize samples), less than that stays in the
\* accumulator, and the chunks followed by the accumulator are the input taken,
\* in order; when the capture worker ends, what is left in its accumulator has
\* been put as one last chunk
C29_ChunksOfEqualSize ==
    /\ Len(rec.buffer) < BufferSize
    /\ \A i \in DOMAIN FedChunks : Len(FedChunks[i]) = BufferSize
    /\ Flatten(FedChunks) \o rec.buffer = mon.fedIn
    /\ Len(rec.reader_buffer) < BufferSize
    /\ IF rec.reader_alive
       THEN /\ \A i \in DOMAIN ReadChunks : Len(ReadChunks[i]) = BufferSize
            /\ Flatten(ReadChunks) \o rec.reader_buffer = mon.readIn
       ELSE /\ Flatten(ReadChunks) = mon.readIn
            /\ LET full == IF rec.reader_buffer = <<>> THEN ReadChunks
                           ELSE AllButLast(ReadChunks)
               IN  /\ \A i \in DOMAIN full : Len(full[i]) = BufferSize
                   /\ Flatten(full) \o rec.reader_buffer = mon.readIn

\* the capture worker has ended with a remainder, after a read that brought
\* more than one chunk; feed_audio has put a chunk and keeps a remainder
C29_Witness ==
    /\ ~rec.reader_alive
    /\ rec.reader_buffer # <<>>
    /\ Len(ReadChunks) >= 3
    /\ Len(mon.readIn) < mon.nread
    /\ FedChunks # <<>>
    /\ rec.buffer # <<>>


\* C21: the constructor has returned only if ready_event is set; ready_event
\* is set only with the model loaded and the warm-up inference done; a request
\* is on the pipe only if the worker is ready and serving
C21_ReadyBeforeUse ==
    /\ th["T"].pc \notin {"init", "init_wait"} => rec.ready_event
    /\ wk.pc # "new" => rec.ready_event
    /\ rec.ready_event => rec.model_loaded /\ rec.model_warm
    /\ (pipe.req # <<>> \/ pipe.resp # <<>> \/ rec.transcribe_count > 0)
         => rec.ready_event /\ rec.transcriber_state = "serving"

\* a request is on its way to the worker, constructed in this run
C21_Witness ==
    /\ pipe.req # <<>>
    /\ th["T"].pc = "wa_stop"
    /\ rec.ready_event
    /\ cfg.env_construct


\* the parts of the last stream that count: final, with a text that is not empty
Counted(part) == part.is_final /\ part.has_text /\ Len(part.text) > 0
\* s without the white space at its ends
Core(text) ==
    LET ink == {i \in DOMAIN text : text[i] # " "}
    IN  IF ink = {} THEN <<>>
        ELSE SubSeq(text, CHOOSE i \in ink : \A j \in ink : i <= j,
                          CHOOSE i \in ink : \A j \in ink : i >= j)
\* texts, in order, with the separator between any two
RECURSIVE Separated(_)
Separated(texts) ==
    IF texts = <<>> THEN <<>>
    ELSE LET front == Separated(SubSeq(texts, 1, Len(texts) - 1))
         IN  IF Len(texts) = 1 THEN texts[1]
             ELSE front \o <<FullStop>> \o texts[Len(texts)]

\* C22: the text transcribe_stream_finalize returned is that of the parts
\* yielded that are final and have a text that is not empty, each without the
\* white space at its ends, in the order yielded, joined by the full stop; a
\* part that is not final adds nothing
C22_FinalizeJoinsFinals ==
    LET counted == SelectSeq(svc.parts, Counted)
    IN  svc.returned =>
            svc.final_text = Separated([i \in DOMAIN counted |-> Core(counted[i].text)])

\* two final parts and their texts joined, the first padded with white space
C22_Witness ==
    /\ svc.returned
    /\ Len(svc.parts) = 2
    /\ svc.parts[1] = [text |-> <<" ", "a", " ">>, has_text |-> TRUE, is_final |-> TRUE]
    /\ svc.parts[2] = [text |-> <<"b">>, has_text |-> TRUE, is_final |-> TRUE]
    /\ svc.final_text = <<"a", FullStop, "b">>

\* C23: a service constructed when USE_REMOTE_ASR was true or not set has the
\* remote strategy, one constructed when it was false has the local strategy
C23_StrategyFromConfig ==
    svc.strategy # "none" =>
        /\ svc.flag \in {"true", "unset"} => svc.strategy = "RemoteASRStrategy"
        /\ svc.flag = "false" => svc.strategy = "LocalASRStrategy"
        /\ svc.remote_flag = (svc.strategy = "RemoteASRStrategy")

\* a local service constructed after the configuration was changed to false
C23_Witness ==
    /\ svc.strategy = "LocalASRStrategy"
    /\ svc.flag = "false"
    /\ svc.USE_REMOTE_ASR = "false"


\* frames without their first n samples: whole chunks off the head, the chunk
\* the count ends in shortened by what is left of it
RECURSIVE HeadCut(_, _)
HeadCut(frames, n) ==
    IF n = 0 \/ frames = <<>> THEN frames
    ELSE IF n >= Len(Head(frames)) THEN HeadCut(Tail(frames), n - Len(Head(frames)))
    ELSE <<DropFirst(Head(frames), n)>> \o Tail(frames)
\* an iteration of the recording branch that finds a strip count pending
StripIteration ==
    /\ rec' # rec /\ th' = th
    /\ mon'.lastChunk # mon.lastChunk
    /\ rec.is_recording
    /\ rec.wakeword_samples_to_remove > 0

\* C31: an iteration of the recording branch that finds wake-word samples to
\* remove takes min(count, samples in the utterance) samples off the head of
\* the utterance, whole leading chunks and then the remainder off the chunk
\* that follows, no more (the iteration then appends its own chunk, once),
\* and leaves nothing pending
C31_StripRemovesPending ==
    [][StripIteration
         => /\ rec'.frames = Append(HeadCut(rec.frames, rec.wakeword_samples_to_remove),
                                     Chunk(mon'.lastChunk))
            /\ Len(Flatten(rec'.frames)) =
                   Len(Flatten(rec.frames)) + BufferSize
                   - Min(rec.wakeword_samples_to_remove, Len(Flatten(rec.frames)))
            /\ rec'.wakeword_samples_to_remove = 0]_vars


\* the callbacks a user can register
UserCallbacks ==
    {"on_recording_start", "on_recording_stop", "on_vad_detect_start",
     "on_vad_detect_stop", "on_wakeword_detected", "on_wakeword_timeout",
     "on_wakeword_detection_start", "on_wakeword_detection_end",
     "on_transcription_start", "on_recorded_chunk"}
\* a step of the recorder with the interrupt signal set before and after it
\* (abort() has set it, text() has not cleared it)
InterruptHeld ==
    /\ rec' # rec
    /\ rec.interrupt_stop_event /\ rec'.interrupt_stop_event
\* a call returns a text that is not empty
ReturnsText == \E t \in Callers : th[t].pc # "idle" /\ th'[t].pc = "idle"
                                     /\ th'[t].ret = "text"

\* C32: from abort() setting the interrupt signal until text() clears it no
\* user callback fires and no call returns a text that is not empty
C32_InterruptSuppresses ==
    [][/\ InterruptHeld => Range(rec'.fired) \cap UserCallbacks = {}
       /\ (rec.interrupt_stop_event /\ ReturnsText) => FALSE]_vars


\* an iteration of the not-recording branch comes to its voice check with the
\* start on voice armed and both detectors' flags up
ArmedVoice ==
    /\ IterEnd
    /\ ~rec.is_recording
    /\ rec.start_recording_on_voice_activity
    /\ is_voice_active(rec)

\* C33: with the recorder not recording and the start on voice activity armed,
\* a true composite VAD result makes the loop call start() in that iteration
\* (the recording starts, or the call is turned down by the minimum gap),
\* with wake words on or off, a wake word detected or not
C33_ArmedVoiceStarts ==
    [][ArmedVoice => (FiredNow("on_recording_start") \/ start_too_soon(rec))]_vars


\* an iteration of the recording branch on a non-speech chunk that finds the
\* silence timer running, an utterance there and an early request allowed
EarlyDue ==
    /\ RecIteration
    /\ ~rec'.is_speech
    /\ rec.speech_end_silence_start # 0
    /\ rec.allowed_to_early_transcribe
    /\ rec.frames # <<>>
    /\ cfg.early_transcription_on_silence # 0
\* the silence timer has run for more milliseconds than the option says (the
\* clock and the options of cfg are in ticks, env_second of them a second:
\* the timer has run (now - start) * 1000 / env_second ms, the option's
\* number is early_transcription_on_silence / env_second)
SilenceMsOver ==
    (now - rec.speech_end_silence_start) * 1000 > cfg.early_transcription_on_silence

\* C34: the loop submits an early transcription once the silence timer has
\* run for more than early_transcription_on_silence milliseconds, and not
\* before
C34_EarlyAfterMilliseconds ==
    [][EarlyDue => (EarlySubmit <=> SilenceMsOver)]_vars


\* C35: every call of abort() returns in the end, whatever the state of the
\* recorder and whether or not a text() call is under way in another thread
C35_AbortReturns ==
    (th["U"].call = "abort" /\ th["U"].pc # "idle") ~> (th["U"].pc = "idle")


\* transcribe() called by t returns a text; the engine's result stands for the
\* audio of the request it answers
TextReturned(t) ==
    /\ th[t].pc = "tr_inactive" /\ th'[t].pc = "idle"
    /\ th'[t].ret = "text"

\* C36: the text a transcribe() call returns is the engine's response to the
\* request for the utterance wait_audio() assembled for that call, never the
\* response to the request of an earlier call that was interrupted before it
\* received it
C36_ResultOfCurrentUtterance ==
    [][\A t \in Callers :
         TextReturned(t) => th[t].result = add_padding_to_audio(rec.audio)]_vars


\* the loop calls start() on voice and the minimum gap turns the call down
StartTurnedDown == ArmedVoice /\ ~cfg.use_wake_words /\ start_too_soon(rec)

\* C37: an iteration of the loop whose voice-triggered start() is turned down
\* by the minimum gap leaves the start on voice activity armed, the utterance
\* frames as they were and the pre-roll buffer as it was (the chunk of the
\* iteration joins it as in any iteration), and starts no recording
C37_TurnedDownStaysArmed ==
    [][StartTurnedDown
         => /\ rec'.start_recording_on_voice_activity
            /\ rec'.frames = rec.frames
            /\ rec'.audio_buffer =
                   DequeAppend(rec.audio_buffer, Chunk(mon'.lastChunk), AudioBufferMaxLen)
            /\ ~rec'.is_recording]_vars


\* a caller calls stop() with no recording in progress
IdleStop == (\E t \in Callers : Stop(t)) /\ ~rec.is_recording

\* C38: on_recording_start and on_recording_stop alternate, start first:
\* on_recording_stop fires only with a recording in progress, and
\* on_recording_start only with none; a stop() called with no recording in
\* progress fires no on_recording_stop, leaves the stop event as it is and
\* leaves last_frames as it is
C38_StartStopAlternate ==
    [][/\ (rec' # rec /\ FiredNow("on_recording_stop")) => rec.is_recording
       /\ (rec' # rec /\ FiredNow("on_recording_start")) => ~rec.is_recording
       /\ IdleStop => /\ ~FiredNow("on_recording_stop")
                       /\ rec'.stop_recording_event = rec.stop_recording_event
                       /\ rec'.last_frames = rec.last_frames]_vars

\* an iteration of the loop that strips leading samples from the utterance
Strips ==
    /\ rec' # rec /\ th' = th /\ mon'.lastChunk # mon.lastChunk
    /\ rec.is_recording /\ rec.wakeword_samples_to_remove > 0
    /\ rec.frames # <<>>

\* C39: leading samples are stripped only from a recording that started with
\* a wake word detected and not timed out; the count left by a detection that
\* timed out is not applied to a recording started later, by hand or by voice
C39_StripOnlyAfterLiveDetection ==
    [][Strips => mon.wakeRec]_vars

\* C40: on_wakeword_timeout fires only in an iteration that finds a wake word
\* detected more than wake_word_timeout ago with no recording started since;
\* it does not fire as long as no wake word was detected
C40_TimeoutOnlyAfterDetection ==
    [][(rec' # rec /\ FiredNow("on_wakeword_timeout"))
         => /\ mon.wakeChunk > 0
            /\ rec.wakeword_detected /\ Expired(rec)
            /\ ~rec.is_recording]_vars

====
